---- MODULE Spec2Model ----
(***************************************************************************)
(* A model of the Linktor Rust SDK core (sdks/rust/src):                   *)
(*   - webhook.rs: compute_signature, verify_signature, verify,            *)
(*     construct_event (specification WebhookSpec);                        *)
(*   - client.rs: LinktorClient::request, its retry loop and the shared    *)
(*     access token (specification Spec).                                  *)
(* Strings the code inspects character by character (header names, the     *)
(* signature, the timestamp) are sequences of one-character strings.       *)
(* Option<T> is a sequence of length at most one: <<>> is None, <<v>> is   *)
(* Some(v).                                                                *)
(***************************************************************************)
EXTENDS Integers, Sequences, FiniteSets, TLC

None == <<>>
Some(v) == <<v>>
IsSome(o) == Len(o) = 1
Unwrap(o) == o[1]

(***************************************************************************)
(* Characters and bytes.                                                   *)
(***************************************************************************)
Digits == <<"0", "1", "2", "3", "4", "5", "6", "7", "8", "9">>

UpperLetters ==
    <<"A", "B", "C", "D", "E", "F", "G", "H", "I", "J", "K", "L", "M",
      "N", "O", "P", "Q", "R", "S", "T", "U", "V", "W", "X", "Y", "Z">>

LowerLetters ==
    <<"a", "b", "c", "d", "e", "f", "g", "h", "i", "j", "k", "l", "m",
      "n", "o", "p", "q", "r", "s", "t", "u", "v", "w", "x", "y", "z">>

\* The ASCII characters the modelled strings are made of, with their bytes.
Ascii ==
    [i \in 1..10 |-> <<Digits[i], 47 + i>>] \o
    [i \in 1..26 |-> <<UpperLetters[i], 64 + i>>] \o
    [i \in 1..26 |-> <<LowerLetters[i], 96 + i>>] \o
    << <<" ", 32>>, <<"+", 43>>, <<"-", 45>>, <<".", 46>> >>

\* The byte of an ASCII character (str::bytes on ASCII text).
Ord == [c \in {Ascii[i][1] : i \in 1..Len(Ascii)} |->
          Ascii[CHOOSE i \in 1..Len(Ascii) : Ascii[i][1] = c][2]]

Chr(b) == Ascii[CHOOSE i \in 1..Len(Ascii) : Ascii[i][2] = b][1]

IsUpperChar(c) == Ord[c] >= 65 /\ Ord[c] <= 90
IsLowerChar(c) == Ord[c] >= 97 /\ Ord[c] <= 122
IsDigitChar(c) == Ord[c] >= 48 /\ Ord[c] <= 57

\* str::to_lowercase on ASCII text.
to_lowercase(s) == [i \in 1..Len(s) |-> IF IsUpperChar(s[i]) THEN Chr(Ord[s[i]] + 32) ELSE s[i]]

\* str::to_uppercase; used only to build header maps as a sender may send them.
to_uppercase(s) == [i \in 1..Len(s) |-> IF IsLowerChar(s[i]) THEN Chr(Ord[s[i]] - 32) ELSE s[i]]

RECURSIVE BitXor(_, _)
BitXor(a, b) ==
    IF a = 0 /\ b = 0 THEN 0
    ELSE (((a % 2) + (b % 2)) % 2) + 2 * BitXor(a \div 2, b \div 2)

RECURSIVE BitOr(_, _)
BitOr(a, b) ==
    IF a = 0 /\ b = 0 THEN 0
    ELSE (IF (a % 2) = 1 \/ (b % 2) = 1 THEN 1 ELSE 0) + 2 * BitOr(a \div 2, b \div 2)

(***************************************************************************)
(* Machine integers. TLC's integers are 32 bits wide, so i64 is modelled   *)
(* as a two's-complement integer of IntBits bits; every i64 operation of   *)
(* the code is modelled with that width.                                   *)
(***************************************************************************)
IntBits == 12
I64_MAX == 2^(IntBits - 1) - 1
I64_MIN == 0 - 2^(IntBits - 1)

InI64(x) == x >= I64_MIN /\ x <= I64_MAX

\* Two's-complement wrap of a mathematical integer into the i64 range.
WrapI64(x) == ((x - I64_MIN) % 2^IntBits) + I64_MIN

(***************************************************************************)
(* types/webhook.rs                                                        *)
(***************************************************************************)
SIGNATURE_HEADER ==
    <<"X", "-", "L", "i", "n", "k", "t", "o", "r", "-",
      "S", "i", "g", "n", "a", "t", "u", "r", "e">>

TIMESTAMP_HEADER ==
    <<"X", "-", "L", "i", "n", "k", "t", "o", "r", "-",
      "T", "i", "m", "e", "s", "t", "a", "m", "p">>

DEFAULT_TOLERANCE_SECONDS == 300

(***************************************************************************)
(* webhook.rs: the signature engine. A payload is the record               *)
(* [bytes, json]: the raw bytes the digest is computed over, and the JSON  *)
(* document those bytes hold (what serde_json reads from them).            *)
(***************************************************************************)
DigestBytes == 32

HexDigits == <<"0", "1", "2", "3", "4", "5", "6", "7",
               "8", "9", "a", "b", "c", "d", "e", "f">>

RECURSIVE Mix(_, _, _)
Mix(bytes, i, h) ==
    IF i > Len(bytes) THEN h
    ELSE Mix(bytes, i + 1, ((h * 33) + bytes[i] + 1) % 8191)

\* Hmac<Sha256> of the hmac/sha2 crates: a keyed digest of DigestBytes bytes,
\* a function of the key bytes and the message bytes alone. The crates are
\* outside the repository; the digest is a stand-in mixing function.
HmacSha256(key, msg) ==
    LET k == Mix(key, 1, 7)
        m == Mix(msg, 1, 11)
    IN  [i \in 1..DigestBytes |-> ((k * 131) + (m * 31) + ((k + i) * (m + (7 * i))) + (13 * i)) % 256]

\* hex::encode_upper: two uppercase hexadecimal digits per byte.
hex_encode_upper(bytes) ==
    [i \in 1..(2 * Len(bytes)) |->
        LET digit == IF (i % 2) = 1 THEN HexDigits[(bytes[(i + 1) \div 2] \div 16) + 1]
                                   ELSE HexDigits[(bytes[i \div 2] % 16) + 1]
        IN  IF IsLowerChar(digit) THEN Chr(Ord[digit] - 32) ELSE digit]

\* hex::encode: two lowercase hexadecimal digits per byte.
hex_encode(bytes) ==
    [i \in 1..(2 * Len(bytes)) |->
        IF (i % 2) = 1 THEN HexDigits[(bytes[(i + 1) \div 2] \div 16) + 1]
                     ELSE HexDigits[(bytes[i \div 2] % 16) + 1]]

as_bytes(s) == [i \in 1..Len(s) |-> Ord[s[i]]]

compute_signature(payload, secret) ==
    hex_encode(HmacSha256(as_bytes(secret), payload.bytes))

\* The loop of verify_signature: result |= a ^ b for every pair (a, b) of
\* expected.bytes().zip(signature.bytes()), here the pairs lo..hi. The OR of
\* the differences is accumulated over the two halves of the range (OR is
\* associative, so this is the value the left-to-right loop ends with).
RECURSIVE CompareLoop(_, _, _, _)
CompareLoop(expected, signature, lo, hi) ==
    IF lo > hi THEN 0
    ELSE IF lo = hi THEN BitXor(Ord[expected[lo]], Ord[signature[lo]])
    ELSE LET mid == (lo + hi) \div 2
         IN  BitOr(CompareLoop(expected, signature, lo, mid),
                   CompareLoop(expected, signature, mid + 1, hi))

Min(a, b) == IF a < b THEN a ELSE b

\* verify_signature without the comparison of the lengths: the zip stops at
\* the shorter of the two strings.
verify_signature_prefix(payload, signature, secret) ==
    IF Len(signature) = 0 \/ Len(secret) = 0 THEN FALSE
    ELSE LET expected == compute_signature(payload, secret)
         IN  CompareLoop(expected, signature, 1, Min(Len(expected), Len(signature))) = 0

verify_signature(payload, signature, secret) ==
    IF Len(signature) = 0 \/ Len(secret) = 0 THEN FALSE
    ELSE LET expected == compute_signature(payload, secret)
         IN  IF Len(expected) # Len(signature) THEN FALSE
             ELSE CompareLoop(expected, signature, 1, Min(Len(expected), Len(signature))) = 0

\* compare_steps leaving the loop at the first pair that differs.
compare_steps_early_exit(payload, signature, secret) ==
    IF Len(signature) = 0 \/ Len(secret) = 0 THEN 0
    ELSE LET expected == compute_signature(payload, secret)
             pairs == Min(Len(expected), Len(signature))
             differ == {i \in 1..pairs : expected[i] # signature[i]}
         IN  IF Len(expected) # Len(signature) THEN 0
             ELSE IF differ = {} THEN pairs
             ELSE CHOOSE i \in differ : \A j \in differ : i <= j

\* Lines 21-35 of verify_signature: how many times the body of the for loop
\* runs. The two early returns run it not at all; the loop has no break, so
\* it runs once for every pair of the zip.
compare_steps(payload, signature, secret) ==
    IF Len(signature) = 0 \/ Len(secret) = 0 THEN 0
    ELSE LET expected == compute_signature(payload, secret)
         IN  IF Len(expected) # Len(signature) THEN 0
             ELSE Min(Len(expected), Len(signature))

(***************************************************************************)
(* i64 arithmetic of verify. An overflowing operation panics when the      *)
(* crate is built with overflow checks (the debug profile) and wraps when  *)
(* it is built without them (the release profile): <<>> is the panic.      *)
(***************************************************************************)
sub_i64(a, b, overflow_checks) ==
    IF InI64(a - b) THEN Some(a - b)
    ELSE IF overflow_checks THEN None
    ELSE Some(WrapI64(a - b))

abs_i64(x, overflow_checks) ==
    IF x = I64_MIN THEN (IF overflow_checks THEN None ELSE Some(I64_MIN))
    ELSE Some(IF x < 0 THEN 0 - x ELSE x)

DigitValue(c) == Ord[c] - 48

\* The digit loop of str::parse::<i64>: checked multiply-and-add for a
\* positive number, checked multiply-and-subtract for a negative one.
RECURSIVE ParseDigits(_, _, _, _)
ParseDigits(s, i, acc, negative) ==
    IF i > Len(s) THEN Some(acc)
    ELSE IF ~IsDigitChar(s[i]) THEN None
    ELSE LET next == IF negative THEN (acc * 10) - DigitValue(s[i])
                                 ELSE (acc * 10) + DigitValue(s[i])
         IN  IF InI64(next) THEN ParseDigits(s, i + 1, next, negative) ELSE None

\* ts_str.parse::<i64>(): Some(value), or None for the Err case.
parse_i64(s) ==
    IF Len(s) = 0 THEN None
    ELSE IF Len(s) = 1 /\ s[1] \in {"+", "-"} THEN None
    ELSE IF s[1] = "+" THEN ParseDigits(Tail(s), 1, 0, FALSE)
    ELSE IF s[1] = "-" THEN ParseDigits(Tail(s), 1, 0, TRUE)
    ELSE ParseDigits(s, 1, 0, FALSE)

\* HashMap::get
get(map, key) == IF key \in DOMAIN map THEN Some(map[key]) ELSE None

\* Option::or_else
or_else(o, alt) == IF IsSome(o) THEN o ELSE alt

\* Option::unwrap_or
unwrap_or(o, default) == IF IsSome(o) THEN Unwrap(o) ELSE default

(***************************************************************************)
(* webhook.rs: verify. The result is "true", "false" or "panic".           *)
(***************************************************************************)
\* timestamp_check with the timestamp header made mandatory.
timestamp_check_mandatory(timestamp_str, tolerance, now, overflow_checks) ==
    IF ~IsSome(timestamp_str) THEN "false"
    ELSE LET timestamp == parse_i64(Unwrap(timestamp_str))
         IN  IF ~IsSome(timestamp) THEN "false"
             ELSE LET diff == sub_i64(now, Unwrap(timestamp), overflow_checks)
                  IN  IF ~IsSome(diff) THEN "panic"
                      ELSE LET dist == abs_i64(Unwrap(diff), overflow_checks)
                           IN  IF ~IsSome(dist) THEN "panic"
                               ELSE IF Unwrap(dist) > tolerance THEN "false"
                               ELSE "pass"

\* Lines 59-68: the timestamp check. "pass" lets verify go on to the
\* signature comparison.
timestamp_check(timestamp_str, tolerance, now, overflow_checks) ==
    IF ~IsSome(timestamp_str) THEN "pass"
    ELSE LET timestamp == parse_i64(Unwrap(timestamp_str))
         IN  IF ~IsSome(timestamp) THEN "false"
             ELSE LET diff == sub_i64(now, Unwrap(timestamp), overflow_checks)
                  IN  IF ~IsSome(diff) THEN "panic"
                      ELSE LET dist == abs_i64(Unwrap(diff), overflow_checks)
                           IN  IF ~IsSome(dist) THEN "panic"
                               ELSE IF Unwrap(dist) > tolerance THEN "false"
                               ELSE "pass"

\* Lines 44-48 and 55-57: the header lookup of verify.
lookup(headers, name) ==
    or_else(get(headers, name), get(headers, to_lowercase(name)))

\* verify expecting a signature over the payload followed by the text of
\* the timestamp header.
verify_signed_timestamp(payload, headers, secret, tolerance_seconds, now, overflow_checks) ==
    LET tolerance == unwrap_or(tolerance_seconds, DEFAULT_TOLERANCE_SECONDS)
        signature == unwrap_or(lookup(headers, SIGNATURE_HEADER), <<>>)
    IN  IF Len(signature) = 0 THEN "false"
        ELSE LET timestamp_str == lookup(headers, TIMESTAMP_HEADER)
                 checked == timestamp_check(timestamp_str, tolerance, now, overflow_checks)
                 signed == [payload EXCEPT
                              !.bytes = @ \o as_bytes(unwrap_or(timestamp_str, <<>>))]
             IN  IF checked # "pass" THEN checked
                 ELSE IF verify_signature(signed, signature, secret) THEN "true"
                 ELSE "false"

\* verify with a tolerance of 0 replaced by the default, as construct_event does.
verify_zero_is_default(payload, headers, secret, tolerance_seconds, now, overflow_checks) ==
    LET tolerance == IF tolerance_seconds = Some(0) THEN DEFAULT_TOLERANCE_SECONDS
                     ELSE unwrap_or(tolerance_seconds, DEFAULT_TOLERANCE_SECONDS)
        signature == unwrap_or(lookup(headers, SIGNATURE_HEADER), <<>>)
    IN  IF Len(signature) = 0 THEN "false"
        ELSE LET timestamp_str == lookup(headers, TIMESTAMP_HEADER)
                 checked == timestamp_check(timestamp_str, tolerance, now, overflow_checks)
             IN  IF checked # "pass" THEN checked
                 ELSE IF verify_signature(payload, signature, secret) THEN "true"
                 ELSE "false"

verify(payload, headers, secret, tolerance_seconds, now, overflow_checks) ==
    LET tolerance == unwrap_or(tolerance_seconds, DEFAULT_TOLERANCE_SECONDS)
        signature == unwrap_or(lookup(headers, SIGNATURE_HEADER), <<>>)
    IN  IF Len(signature) = 0 THEN "false"
        ELSE LET timestamp_str == lookup(headers, TIMESTAMP_HEADER)
                 checked == timestamp_check(timestamp_str, tolerance, now, overflow_checks)
             IN  IF checked # "pass" THEN checked
                 ELSE IF verify_signature(payload, signature, secret) THEN "true"
                 ELSE "false"

(***************************************************************************)
(* JSON. A JSON text is the record [t, v, f]: t is its lexical class       *)
(* ("object", "string", "datetime" for a string in RFC 3339 form,          *)
(* "number", "bool", "null", or "invalid" for text that is no JSON), v its *)
(* text and f the fields of an object (a function from names to JSON       *)
(* texts, empty for the other classes).                                    *)
(***************************************************************************)
EmptyMap == [k \in {} |-> <<>>]
Entry(k, v) == [x \in {k} |-> v]

Str(text) == [t |-> "string", v |-> text, f |-> EmptyMap]
DateTime(text) == [t |-> "datetime", v |-> text, f |-> EmptyMap]
Number(text) == [t |-> "number", v |-> text, f |-> EmptyMap]
Bool(text) == [t |-> "bool", v |-> text, f |-> EmptyMap]
Null == [t |-> "null", v |-> "null", f |-> EmptyMap]
ObjectText(raw, fields) == [t |-> "object", v |-> raw, f |-> fields]
Object(fields) == ObjectText("{}", fields)
Invalid(text) == [t |-> "invalid", v |-> text, f |-> EmptyMap]

(***************************************************************************)
(* types/webhook.rs: WebhookEvent and its derived Deserialize.             *)
(***************************************************************************)
IsJsonString(val) == val.t \in {"string", "datetime"}

\* serde_json::from_slice::<WebhookEvent>: Some(event), or None for Err.
\* id, type, timestamp and tenantId are required; data is optional; fields
\* the struct does not name are ignored.
WebhookEvent_from_slice(payload) ==
    LET doc == payload.json
        f == doc.f
    IN  IF doc.t # "object" THEN None
        ELSE IF ~({"id", "type", "timestamp", "tenantId"} \subseteq DOMAIN f) THEN None
        ELSE IF ~IsJsonString(f["id"]) \/ ~IsJsonString(f["type"]) THEN None
        ELSE IF f["timestamp"].t # "datetime" THEN None
        ELSE IF ~IsJsonString(f["tenantId"]) THEN None
        ELSE IF "data" \in DOMAIN f /\ f["data"].t \notin {"object", "null"} THEN None
        ELSE Some([id |-> f["id"].v,
                   event_type |-> f["type"].v,
                   timestamp |-> f["timestamp"].v,
                   tenant_id |-> f["tenantId"].v,
                   data |-> IF "data" \in DOMAIN f /\ f["data"].t = "object"
                            THEN Some(f["data"].f) ELSE None])

\* The enum EventType: each variant with its serde name.
EventType ==
    [MessageReceived |-> "message.received",
     MessageSent |-> "message.sent",
     MessageDelivered |-> "message.delivered",
     MessageRead |-> "message.read",
     MessageFailed |-> "message.failed",
     ConversationCreated |-> "conversation.created",
     ConversationUpdated |-> "conversation.updated",
     ConversationResolved |-> "conversation.resolved",
     ConversationAssigned |-> "conversation.assigned",
     ContactCreated |-> "contact.created",
     ContactUpdated |-> "contact.updated",
     ContactDeleted |-> "contact.deleted",
     ChannelConnected |-> "channel.connected",
     ChannelDisconnected |-> "channel.disconnected",
     ChannelError |-> "channel.error",
     BotStarted |-> "bot.started",
     BotStopped |-> "bot.stopped",
     FlowStarted |-> "flow.started",
     FlowCompleted |-> "flow.completed",
     FlowFailed |-> "flow.failed"]

\* get_event_type taking the family of an unknown name for its type.
get_event_type_by_family(event) ==
    LET t == event.event_type
    IN  CASE t = "message.received" -> Some("MessageReceived")
          [] t = "message.sent" -> Some("MessageSent")
          [] t = "message.delivered" -> Some("MessageDelivered")
          [] t = "message.read" -> Some("MessageRead")
          [] t = "message.failed" -> Some("MessageFailed")
          [] t = "conversation.created" -> Some("ConversationCreated")
          [] t = "conversation.updated" -> Some("ConversationUpdated")
          [] t = "conversation.resolved" -> Some("ConversationResolved")
          [] t = "conversation.assigned" -> Some("ConversationAssigned")
          [] t = "contact.created" -> Some("ContactCreated")
          [] t = "contact.updated" -> Some("ContactUpdated")
          [] t = "contact.deleted" -> Some("ContactDeleted")
          [] t = "channel.connected" -> Some("ChannelConnected")
          [] t = "channel.disconnected" -> Some("ChannelDisconnected")
          [] t = "channel.error" -> Some("ChannelError")
          [] t = "bot.started" -> Some("BotStarted")
          [] t = "bot.stopped" -> Some("BotStopped")
          [] t = "flow.started" -> Some("FlowStarted")
          [] t = "flow.completed" -> Some("FlowCompleted")
          [] t = "flow.failed" -> Some("FlowFailed")
          [] t = "message.queued" -> Some("MessageSent")
          [] OTHER -> None

\* WebhookEvent::get_event_type: the match on the type string.
get_event_type(event) ==
    LET t == event.event_type
    IN  CASE t = "message.received" -> Some("MessageReceived")
          [] t = "message.sent" -> Some("MessageSent")
          [] t = "message.delivered" -> Some("MessageDelivered")
          [] t = "message.read" -> Some("MessageRead")
          [] t = "message.failed" -> Some("MessageFailed")
          [] t = "conversation.created" -> Some("ConversationCreated")
          [] t = "conversation.updated" -> Some("ConversationUpdated")
          [] t = "conversation.resolved" -> Some("ConversationResolved")
          [] t = "conversation.assigned" -> Some("ConversationAssigned")
          [] t = "contact.created" -> Some("ContactCreated")
          [] t = "contact.updated" -> Some("ContactUpdated")
          [] t = "contact.deleted" -> Some("ContactDeleted")
          [] t = "channel.connected" -> Some("ChannelConnected")
          [] t = "channel.disconnected" -> Some("ChannelDisconnected")
          [] t = "channel.error" -> Some("ChannelError")
          [] t = "bot.started" -> Some("BotStarted")
          [] t = "bot.stopped" -> Some("BotStopped")
          [] t = "flow.started" -> Some("FlowStarted")
          [] t = "flow.completed" -> Some("FlowCompleted")
          [] t = "flow.failed" -> Some("FlowFailed")
          [] OTHER -> None

(***************************************************************************)
(* webhook.rs: construct_event. The result is the record                   *)
(*   [kind, event, error, decoded]: kind "Ok" with Some(event), "Err" with *)
(* Some([variant, message]), or "Panic"; decoded tells whether             *)
(* serde_json::from_slice was run on the payload.                          *)
(***************************************************************************)
Ok(event, decoded) ==
    [kind |-> "Ok", event |-> Some(event), error |-> None, decoded |-> decoded]

Err(variant, message, decoded) ==
    [kind |-> "Err", event |-> None,
     error |-> Some([variant |-> variant, message |-> message]), decoded |-> decoded]

Panic == [kind |-> "Panic", event |-> None, error |-> None, decoded |-> FALSE]

\* effective_tolerance handing a tolerance of Some(0) on as it is.
effective_tolerance_literal(tolerance_seconds) ==
    unwrap_or(tolerance_seconds, DEFAULT_TOLERANCE_SECONDS)

\* Lines 80-84.
effective_tolerance(tolerance_seconds) ==
    IF tolerance_seconds = Some(0) THEN DEFAULT_TOLERANCE_SECONDS
    ELSE unwrap_or(tolerance_seconds, DEFAULT_TOLERANCE_SECONDS)

\* construct_event decoding the payload without consulting verify.
construct_event_unverified(payload, headers, secret, tolerance_seconds, now, overflow_checks) ==
    LET event == WebhookEvent_from_slice(payload)
    IN  IF ~IsSome(event)
        THEN Err("WebhookVerification", "Failed to parse webhook event", TRUE)
        ELSE IF Unwrap(event).id = "" \/ Unwrap(event).event_type = ""
        THEN Err("WebhookVerification", "Invalid webhook event structure", TRUE)
        ELSE Ok(Unwrap(event), TRUE)

construct_event(payload, headers, secret, tolerance_seconds, now, overflow_checks) ==
    LET tolerance == effective_tolerance(tolerance_seconds)
        verified == verify(payload, headers, secret, Some(tolerance), now, overflow_checks)
    IN  IF verified = "panic" THEN Panic
        ELSE IF verified # "true"
        THEN Err("WebhookVerification", "Webhook signature verification failed", FALSE)
        ELSE LET event == WebhookEvent_from_slice(payload)
             IN  IF ~IsSome(event)
                 THEN Err("WebhookVerification", "Failed to parse webhook event", TRUE)
                 ELSE IF Unwrap(event).id = "" \/ Unwrap(event).event_type = ""
                 THEN Err("WebhookVerification", "Invalid webhook event structure", TRUE)
                 ELSE Ok(Unwrap(event), TRUE)

(***************************************************************************)
(* error.rs: LinktorError. An error is the record                          *)
(*   [variant, message, request_id, retry_after, status_code].             *)
(***************************************************************************)
StatusError(variant, message, request_id) ==
    [variant |-> variant, message |-> message, request_id |-> request_id,
     retry_after |-> None, status_code |-> None]

\* from_status with the Server arm open above: 500.. for 500..=599.
from_status_server_open(status, message, request_id) ==
    IF status = 400 THEN StatusError("Validation", message, request_id)
    ELSE IF status = 401 THEN StatusError("Authentication", message, request_id)
    ELSE IF status = 403 THEN StatusError("Authorization", message, request_id)
    ELSE IF status = 404 THEN StatusError("NotFound", message, request_id)
    ELSE IF status = 429
    THEN [StatusError("RateLimit", message, request_id) EXCEPT !.retry_after = Some(60)]
    ELSE IF status >= 500 THEN StatusError("Server", message, request_id)
    ELSE [variant |-> "Unknown", message |-> message, request_id |-> None,
          retry_after |-> None, status_code |-> Some(status)]

from_status(status, message, request_id) ==
    IF status = 400 THEN StatusError("Validation", message, request_id)
    ELSE IF status = 401 THEN StatusError("Authentication", message, request_id)
    ELSE IF status = 403 THEN StatusError("Authorization", message, request_id)
    ELSE IF status = 404 THEN StatusError("NotFound", message, request_id)
    ELSE IF status = 429
    THEN [StatusError("RateLimit", message, request_id) EXCEPT !.retry_after = Some(60)]
    ELSE IF status >= 500 /\ status <= 599 THEN StatusError("Server", message, request_id)
    ELSE [variant |-> "Unknown", message |-> message, request_id |-> None,
          retry_after |-> None, status_code |-> Some(status)]

\* From<reqwest::Error> and From<serde_json::Error>, applied by the ? operator.
NetworkError == StatusError("Network", "transport", None)
SerializationError == StatusError("Serialization", "decode", None)

\* LinktorError::request_id
request_id_of(error) ==
    IF error.variant \in {"Authentication", "Authorization", "NotFound",
                          "Validation", "RateLimit", "Server"}
    THEN error.request_id ELSE None

(***************************************************************************)
(* client.rs and types/common.rs: decoding a response body. A target type  *)
(* T is "Value" (serde_json::Value), "RefreshTokenResponse" or             *)
(* "LoginResponse". A decoder gives Some(value) or None for Err.           *)
(***************************************************************************)
IsJson(val) == val.t # "invalid"

HasString(f, name) == name \in DOMAIN f /\ IsJsonString(f[name])

\* A field holding a nested struct (User, Tenant): an object with its id.
HasStruct(f, name) ==
    name \in DOMAIN f /\ f[name].t = "object" /\ HasString(f[name].f, "id")

\* serde_json::from_str::<T>
from_str(ty, text) ==
    IF ~IsJson(text) THEN None
    ELSE IF ty = "Value" THEN Some(text)
    ELSE IF /\ ty = "LoginResponse"
            /\ ~(text.t = "object" /\ HasStruct(text.f, "user") /\ HasStruct(text.f, "tenant"))
    THEN None
    ELSE IF /\ text.t = "object"
            /\ HasString(text.f, "accessToken")
            /\ HasString(text.f, "refreshToken")
            /\ "expiresIn" \in DOMAIN text.f
            /\ text.f["expiresIn"].t = "number"
    THEN Some([access_token |-> text.f["accessToken"].v,
               refresh_token |-> text.f["refreshToken"].v,
               expires_in |-> text.f["expiresIn"].v])
    ELSE None

\* An Option<U> field of a derived Deserialize: absent or null is None.
IsAbsent(f, name) == name \notin DOMAIN f \/ f[name].t = "null"

\* serde_json::from_str::<ApiError>
ApiError_from_str(text) ==
    IF /\ text.t = "object"
       /\ HasString(text.f, "code")
       /\ HasString(text.f, "message")
       /\ (IsAbsent(text.f, "details") \/ text.f["details"].t = "object")
    THEN Some([code |-> text.f["code"].v, message |-> text.f["message"].v])
    ELSE None

\* serde_json::from_str::<ApiResponse<T>>
ApiResponse_from_str(ty, text) ==
    IF text.t # "object" THEN None
    ELSE IF ~("success" \in DOMAIN text.f /\ text.f["success"].t = "bool") THEN None
    ELSE IF ~IsAbsent(text.f, "data") /\ ~IsSome(from_str(ty, text.f["data"])) THEN None
    ELSE IF ~IsAbsent(text.f, "error") /\ ~IsSome(ApiError_from_str(text.f["error"])) THEN None
    ELSE Some([success |-> text.f["success"].v = "true",
               data |-> IF IsAbsent(text.f, "data") THEN None
                        ELSE from_str(ty, text.f["data"])])

OkValue(value) == [kind |-> "Ok", value |-> Some(value), error |-> None]
ErrValue(error) == [kind |-> "Err", value |-> None, error |-> Some(error)]

\* decode_success without the envelope: every body is decoded whole.
decode_success_bare(ty, body) ==
    IF ~body.readable THEN ErrValue(NetworkError)
    ELSE IF body.empty
    THEN (IF IsSome(from_str(ty, Null)) THEN OkValue(Unwrap(from_str(ty, Null)))
          ELSE ErrValue(SerializationError))
    ELSE IF IsSome(from_str(ty, body.text))
    THEN OkValue(Unwrap(from_str(ty, body.text)))
    ELSE ErrValue(SerializationError)

\* decode_success returning the error of an envelope whose success is false.
decode_success_envelope_error(ty, body) ==
    IF ~body.readable THEN ErrValue(NetworkError)
    ELSE IF body.empty
    THEN (IF IsSome(from_str(ty, Null)) THEN OkValue(Unwrap(from_str(ty, Null)))
          ELSE ErrValue(SerializationError))
    ELSE LET api_response == ApiResponse_from_str(ty, body.text)
         IN  IF /\ IsSome(api_response)
                /\ Unwrap(api_response).success
                /\ IsSome(Unwrap(api_response).data)
             THEN OkValue(Unwrap(Unwrap(api_response).data))
             ELSE IF IsSome(api_response) /\ ~Unwrap(api_response).success
             THEN ErrValue(StatusError("Unknown", body.text.v, None))
             ELSE IF IsSome(from_str(ty, body.text))
             THEN OkValue(Unwrap(from_str(ty, body.text)))
             ELSE ErrValue(SerializationError)

\* Lines 102-119: the success path. A body is [readable, empty, text].
decode_success(ty, body) ==
    IF ~body.readable THEN ErrValue(NetworkError)
    ELSE IF body.empty
    THEN (IF IsSome(from_str(ty, Null)) THEN OkValue(Unwrap(from_str(ty, Null)))
          ELSE ErrValue(SerializationError))
    ELSE LET api_response == ApiResponse_from_str(ty, body.text)
         IN  IF /\ IsSome(api_response)
                /\ Unwrap(api_response).success
                /\ IsSome(Unwrap(api_response).data)
             THEN OkValue(Unwrap(Unwrap(api_response).data))
             ELSE IF IsSome(from_str(ty, body.text))
             THEN OkValue(Unwrap(from_str(ty, body.text)))
             ELSE ErrValue(SerializationError)

\* error_message without the parse as ApiError: the text of the body.
error_message_raw(body) ==
    IF body.readable /\ ~body.empty THEN body.text.v ELSE ""

\* Lines 139-142: the message of a status-derived error.
error_message(body) ==
    LET text == IF body.readable /\ ~body.empty THEN body.text ELSE Invalid("")
        api_error == IF body.readable /\ ~body.empty THEN ApiError_from_str(text) ELSE None
    IN  IF IsSome(api_error) THEN Unwrap(api_error).message ELSE text.v

is_success(status) == status >= 200 /\ status <= 299
is_server_error(status) == status >= 500 /\ status <= 599

\* u64 of the retry delays, with the width of the modelled machine integers.
U64_MAX == 2^IntBits - 1

RECURSIVE ParseDigitsU64(_, _, _)
ParseDigitsU64(s, i, acc) ==
    IF i > Len(s) THEN Some(acc)
    ELSE IF ~IsDigitChar(s[i]) THEN None
    ELSE LET next == (acc * 10) + DigitValue(s[i])
         IN  IF next <= U64_MAX THEN ParseDigitsU64(s, i + 1, next) ELSE None

\* v.parse::<u64>()
parse_u64(s) ==
    IF Len(s) = 0 THEN None
    ELSE IF Len(s) = 1 /\ s[1] = "+" THEN None
    ELSE IF s[1] = "+" THEN ParseDigitsU64(Tail(s), 1, 0)
    ELSE ParseDigitsU64(s, 1, 0)

\* retry_after_of ignoring the header.
retry_after_fixed(response) == 60

\* Lines 123-128: the Retry-After delay of a 429 response.
retry_after_of(response) ==
    LET parsed == IF IsSome(response.retry_after)
                  THEN parse_u64(Unwrap(response.retry_after)) ELSE None
    IN  unwrap_or(parsed, 60)

\* backoff_of seeded at attempt 0: 2u64.pow(attempts - 1).
backoff_from_one_second(attempts) == (2^(attempts - 1)) % (U64_MAX + 1)

\* Line 135: 2u64.pow(attempts); an overflowing power wraps.
backoff_of(attempts) == (2^attempts) % (U64_MAX + 1)

\* retry_delay with the ceiling tested as attempts <= max_retries.
retry_delay_inclusive(response, attempts, max_retries) ==
    IF response.status = 429 /\ attempts <= max_retries THEN Some(retry_after_of(response))
    ELSE IF is_server_error(response.status) /\ attempts <= max_retries
    THEN Some(backoff_of(attempts))
    ELSE None

\* retry_delay without the ceiling: 429 and 5xx are always retried.
retry_delay_unbounded(response, attempts, max_retries) ==
    IF response.status = 429 THEN Some(retry_after_of(response))
    ELSE IF is_server_error(response.status) THEN Some(backoff_of(attempts))
    ELSE None

\* retry_delay backing off on a server error only when its body was read.
retry_delay_by_body(response, attempts, max_retries) ==
    IF response.status = 429 /\ attempts < max_retries THEN Some(retry_after_of(response))
    ELSE IF is_server_error(response.status) /\ attempts < max_retries /\ response.body.readable
    THEN Some(backoff_of(attempts))
    ELSE None

\* retry_delay backing off on every status that is no success.
retry_delay_any_error(response, attempts, max_retries) ==
    IF response.status = 429 /\ attempts < max_retries THEN Some(retry_after_of(response))
    ELSE IF ~is_success(response.status) /\ attempts < max_retries
    THEN Some(backoff_of(attempts))
    ELSE None

\* Lines 122 and 134: is the response answered by a sleep and a new attempt?
retry_delay(response, attempts, max_retries) ==
    IF response.status = 429 /\ attempts < max_retries THEN Some(retry_after_of(response))
    ELSE IF is_server_error(response.status) /\ attempts < max_retries
    THEN Some(backoff_of(attempts))
    ELSE None

\* auth_headers without the else: the bearer token is attached as well.
auth_headers_both(api_key, token) ==
    (IF IsSome(api_key) THEN Entry("X-API-Key", <<Unwrap(api_key)>>) ELSE EmptyMap)
    @@ (IF IsSome(token) THEN Entry("Authorization", <<"Bearer ", Unwrap(token)>>)
        ELSE EmptyMap)

\* Lines 77-92: the request of one attempt. The headers are a function from
\* header names to values; a value is the tuple of the strings it is
\* formatted from.
auth_headers(api_key, token) ==
    IF IsSome(api_key) THEN Entry("X-API-Key", <<Unwrap(api_key)>>)
    ELSE IF IsSome(token) THEN Entry("Authorization", <<"Bearer ", Unwrap(token)>>)
    ELSE EmptyMap

build_request(method, url, body, api_key, token) ==
    [method |-> method, url |-> url, body |-> body,
     headers |-> IF IsSome(body)
                 THEN auth_headers(api_key, token) @@ Entry("Content-Type", <<"application/json">>)
                 ELSE auth_headers(api_key, token)]

(***************************************************************************)
(* The inputs of the webhook functions: the payloads, secrets, header maps *)
(* and tolerances a caller can pass, the clock, and the build profile.     *)
(***************************************************************************)
NowSeconds == 1000

\* i64::to_string, as a sender writes the timestamp header.
RECURSIVE NatToString(_)
NatToString(n) ==
    IF n < 10 THEN <<Digits[n + 1]>>
    ELSE NatToString(n \div 10) \o <<Digits[(n % 10) + 1]>>

to_string(n) == IF n < 0 THEN <<"-">> \o NatToString(0 - n) ELSE NatToString(n)

Whsec == <<"w", "h", "s", "e", "c">>
OtherSecret == <<"o", "t", "h", "e", "r">>
WrongSignature ==
    <<"w", "r", "o", "n", "g", "-", "s", "i", "g", "n", "a", "t", "u", "r", "e">>

Secrets == {<<>>, Whsec}

Tolerances == {None, Some(0), Some(DEFAULT_TOLERANCE_SECONDS), Some(0 - 1)}

EventFields ==
    [id |-> Str("evt_1"), type |-> Str("message.received"),
     timestamp |-> DateTime("2024-01-01T00:00:00Z"), tenantId |-> Str("tenant_1")]

\* The event names the server sends.
KnownEventNames ==
    <<"message.received", "message.sent", "message.delivered", "message.read",
      "message.failed", "conversation.created", "conversation.updated",
      "conversation.resolved", "conversation.assigned", "contact.created",
      "contact.updated", "contact.deleted", "channel.connected",
      "channel.disconnected", "channel.error", "bot.started", "bot.stopped",
      "flow.started", "flow.completed", "flow.failed">>

\* The well-formed event and the garbage payload: the payloads every header
\* map is tried with (under a non-empty secret).
CorePayloads ==
    { [bytes |-> <<1>>, json |-> Object(EventFields)],
      [bytes |-> <<2>>, json |-> Invalid("not json")] }

Payloads ==
    CorePayloads \cup
    { [bytes |-> <<3>>, json |-> Object([EventFields EXCEPT !.id = Str("")])],
      [bytes |-> <<4>>, json |-> Object([EventFields EXCEPT !.type = Str("")])],
      [bytes |-> <<5>>, json |-> Object([EventFields EXCEPT !.type = Str("custom.event")])],
      [bytes |-> <<6>>, json |-> Object([EventFields EXCEPT !.id = Number("7")])],
      [bytes |-> <<7>>, json |-> Object([EventFields EXCEPT !.timestamp = Str("yesterday")])],
      [bytes |-> <<8>>, json |-> Object([id |-> Str("evt_1"), type |-> Str("message.sent"),
                                         timestamp |-> DateTime("2024-01-01T00:00:00Z")])],
      [bytes |-> <<9>>, json |-> Object([id |-> Str("evt_1"), eventType |-> Str("message.sent"),
                                         timestamp |-> DateTime("2024-01-01T00:00:00Z"),
                                         tenantId |-> Str("tenant_1")])],
      [bytes |-> <<10>>, json |-> Object(EventFields @@ Entry("data", Object(Entry("k", Str("v")))))],
      [bytes |-> <<11>>, json |-> Object(EventFields @@ Entry("data", Null))],
      [bytes |-> <<12>>, json |-> Object(EventFields @@ Entry("data", Str("text")))],
      [bytes |-> <<13>>, json |-> Object(EventFields @@ Entry("extra", Str("ignored")))],
      [bytes |-> <<14>>, json |-> Object([EventFields EXCEPT !.type = Str("message.queued")])],
      [bytes |-> <<15>>, json |-> Object([EventFields EXCEPT !.type = Str("Message.Received")])],
      [bytes |-> <<>>, json |-> Invalid("")] }
    \cup { [bytes |-> <<20 + i>>,
            json |-> Object([EventFields EXCEPT !.type = Str(KnownEventNames[i])])] :
              i \in 1..Len(KnownEventNames) }

FlipLast(sig) ==
    [sig EXCEPT ![Len(sig)] = IF sig[Len(sig)] = "0" THEN "1" ELSE "0"]

FlipFirst(sig) == [sig EXCEPT ![1] = IF sig[1] = "0" THEN "1" ELSE "0"]

MixedCase(name) == [name EXCEPT ![1] = Chr(Ord[name[1]] + 32)]

\* The signature header values tried for a payload and a secret.
SigValues(payload, secret) ==
    LET valid == compute_signature(payload, secret)
    IN  {valid, <<>>, compute_signature(payload, OtherSecret), FlipLast(valid),
         WrongSignature, to_uppercase(valid), FlipFirst(valid),
         SubSeq(valid, 1, Len(valid) - 1), valid \o <<"0">>}

SigEntries(payload, secret) ==
    LET valid == compute_signature(payload, secret)
        wrong == compute_signature(payload, OtherSecret)
    IN  {EmptyMap}
        \cup {Entry(SIGNATURE_HEADER, v) : v \in SigValues(payload, secret)}
        \cup {Entry(to_lowercase(SIGNATURE_HEADER), v) : v \in {valid, wrong, <<>>}}
        \cup {Entry(to_uppercase(SIGNATURE_HEADER), valid),
              Entry(MixedCase(SIGNATURE_HEADER), valid),
              Entry(SIGNATURE_HEADER, wrong) @@ Entry(to_lowercase(SIGNATURE_HEADER), valid),
              Entry(SIGNATURE_HEADER, valid) @@ Entry(to_lowercase(SIGNATURE_HEADER), wrong)}

TsOffsets ==
    {0 - (DEFAULT_TOLERANCE_SECONDS + 1), 0 - DEFAULT_TOLERANCE_SECONDS, 0 - 1, 0,
     1, DEFAULT_TOLERANCE_SECONDS, DEFAULT_TOLERANCE_SECONDS + 1}

\* The timestamp header values tried: around now, at the ends of the i64
\* range, one past the range, and text that is no integer.
TsValues ==
    {to_string(NowSeconds + d) : d \in TsOffsets}
    \cup {to_string(I64_MIN), to_string(NowSeconds + I64_MIN), to_string(I64_MAX),
          to_string(I64_MAX + 1), <<"+">> \o to_string(NowSeconds),
          <<"a", "b", "c">>, <<>>}

TsEntries ==
    LET fresh == to_string(NowSeconds)
        stale == to_string(NowSeconds - (DEFAULT_TOLERANCE_SECONDS + 1))
    IN  {EmptyMap}
        \cup {Entry(TIMESTAMP_HEADER, v) : v \in TsValues}
        \cup {Entry(to_lowercase(TIMESTAMP_HEADER), v) : v \in {fresh, stale}}
        \cup {Entry(to_uppercase(TIMESTAMP_HEADER), v) : v \in {fresh, stale}}
        \cup {Entry(MixedCase(TIMESTAMP_HEADER), stale),
              Entry(TIMESTAMP_HEADER, fresh) @@ Entry(to_lowercase(TIMESTAMP_HEADER), stale)}

HeaderMaps(payload, secret) ==
    {s @@ t : s \in SigEntries(payload, secret), t \in TsEntries}

\* The header maps every payload is tried with.
CoreHeaderMaps(payload, secret) ==
    LET valid == compute_signature(payload, secret)
    IN  {s @@ t : s \in {Entry(SIGNATURE_HEADER, valid),
                          Entry(SIGNATURE_HEADER, FlipLast(valid))},
                  t \in {EmptyMap,
                          Entry(TIMESTAMP_HEADER, to_string(NowSeconds)),
                          Entry(TIMESTAMP_HEADER, to_string(NowSeconds + I64_MIN))}}

WebhookInputs ==
    UNION {
      {[payload |-> p, headers |-> h, secret |-> s, tolerance_seconds |-> tol,
        now |-> NowSeconds, overflow_checks |-> oc] :
          h \in IF p \in CorePayloads /\ s # <<>> THEN HeaderMaps(p, s)
                ELSE CoreHeaderMaps(p, s),
          tol \in Tolerances, oc \in BOOLEAN} :
      p \in Payloads, s \in Secrets}

(***************************************************************************)
(* The inputs of LinktorClient::request: the calls the resource methods    *)
(* make, the tokens a caller stores and the responses a server gives.      *)
(***************************************************************************)
MaxRetries == 3

BaseUrl == "https://api.linktor.io"

\* op is the resource method making the call and handle the clone of the
\* client it calls through (each resource holds its own clone).
Requests ==
    { [op |-> "get", handle |-> "contacts", method |-> "GET", path |-> "/contacts",
       body |-> None, ty |-> "Value"],
      [op |-> "login", handle |-> "auth", method |-> "POST", path |-> "/auth/login",
       body |-> Some("{email,password}"), ty |-> "LoginResponse"],
      [op |-> "refresh_token", handle |-> "auth", method |-> "POST", path |-> "/auth/refresh",
       body |-> Some("{refreshToken}"), ty |-> "RefreshTokenResponse"],
      [op |-> "logout", handle |-> "auth", method |-> "POST", path |-> "/auth/logout",
       body |-> Some("{}"), ty |-> "Value"],
      [op |-> "delete", handle |-> "contacts", method |-> "DELETE", path |-> "/contacts/1",
       body |-> None, ty |-> "Value"] }

Tokens == {None, Some("t1")}

EmptyBody == [readable |-> TRUE, empty |-> TRUE, text |-> Invalid("")]
UnreadableBody == [readable |-> FALSE, empty |-> FALSE, text |-> Invalid("")]
TextBody(text) == [readable |-> TRUE, empty |-> FALSE, text |-> text]

BareDoc ==
    ObjectText("{bare}", [accessToken |-> Str("t1"), refreshToken |-> Str("r1"),
                          expiresIn |-> Number("3600")])
ApiErrorDoc == ObjectText("{apierror}", [code |-> Str("E1"), message |-> Str("boom")])
EnvelopeOk == ObjectText("{ok}", [success |-> Bool("true"), data |-> BareDoc])
EnvelopeFail == ObjectText("{fail}", [success |-> Bool("false"), error |-> ApiErrorDoc])
EnvelopeNoData == ObjectText("{nodata}", [success |-> Bool("true")])
EnvelopeNullData == ObjectText("{nulldata}", [success |-> Bool("true"), data |-> Null])
EnvelopeBadError ==
    ObjectText("{baderror}", [success |-> Bool("true"), data |-> BareDoc, error |-> Str("oops")])
NestedEnvelope == ObjectText("{nested}", [success |-> Bool("true"), data |-> EnvelopeOk])
LoginDoc ==
    ObjectText("{login}", [user |-> ObjectText("{user}", [id |-> Str("u1")]),
                           tenant |-> ObjectText("{tenant}", [id |-> Str("n1")]),
                           accessToken |-> Str("t1"), refreshToken |-> Str("r2"),
                           expiresIn |-> Number("3600")])
EnvelopeLogin == ObjectText("{oklogin}", [success |-> Bool("true"), data |-> LoginDoc])
Garbage == Invalid("<html>")

Response(status, retry_after, request_id, body) ==
    [status |-> status, retry_after |-> retry_after, request_id |-> request_id, body |-> body]

Responses ==
    {Response(200, None, None, b) :
        b \in {EmptyBody, UnreadableBody, TextBody(Garbage), TextBody(BareDoc),
               TextBody(EnvelopeOk), TextBody(EnvelopeFail), TextBody(EnvelopeNoData),
               TextBody(EnvelopeNullData), TextBody(EnvelopeBadError),
               TextBody(NestedEnvelope), TextBody(LoginDoc), TextBody(EnvelopeLogin)}}
    \cup {Response(204, None, Some("req-1"), EmptyBody)}
    \cup {Response(st, None, Some("req-1"), TextBody(ApiErrorDoc)) :
            st \in {302, 400, 401, 403, 404, 499, 600}}
    \cup {Response(404, None, None, TextBody(Garbage))}
    \cup {Response(429, ra, Some("req-1"), TextBody(ApiErrorDoc)) :
            ra \in {None, Some(<<"2">>), Some(<<"+", "2">>), Some(<<"a", "b", "c">>),
                    Some(<<"-", "1">>), Some(to_string(U64_MAX + 1))}}
    \cup {Response(500, None, None, TextBody(Garbage)),
          Response(503, None, Some("req-1"), TextBody(ApiErrorDoc)),
          Response(599, None, None, UnreadableBody)}

(***************************************************************************)
(* State.                                                                  *)
(***************************************************************************)
VARIABLES
    api_key,        \* LinktorClient.api_key, fixed when the client is built
    max_retries,    \* LinktorClient.max_retries, fixed when the client is built
    access_token,   \* LinktorClient.access_token, shared by all clones
    held,           \* every value the store has held: the built one and each one set
    guards,         \* the calls holding a read guard of access_token
    calls,          \* the calls of request, by call id
    wh_in,          \* the arguments of the webhook call, the clock and the build
    wh_out          \* the webhook function called last and what it returned

vars == <<api_key, max_retries, access_token, held, guards, calls, wh_in, wh_out>>

client_vars == <<api_key, max_retries, access_token, held, guards, calls>>
webhook_vars == <<wh_in, wh_out>>

NoOut ==
    [op |-> "none", ret |-> "", signature |-> <<>>, result |-> Panic, steps |-> 0,
     event_type |-> None]

\* A call of request: pc is where its future stands ("idle" before the
\* call, "ready" at the top of the loop, "reading" with the read guard of
\* the token in hand, "sent" awaiting send(), "sleeping"
\* in tokio::time::sleep, "done" after return); attempts is the local
\* counter; request is the request of the latest attempt; sleep is the
\* delay being slept; result is the returned value. sends counts the
\* requests handed to the transport and log lists, per answered attempt,
\* the status received and the delay slept after it. response is the
\* response of the attempt, held until the next pass of the loop, and ret
\* what the resource method that made the call returned; a call whose
\* future is dropped before it returns stands at "dropped".
IdleCall ==
    [pc |-> "idle", req |-> None, attempts |-> 0, request |-> None, sleep |-> None,
     result |-> None, sends |-> 0, log |-> <<>>, response |-> None, ret |-> None]

OneCall == {"c1"}

(***************************************************************************)
(* client.rs: set_access_token and request, one action per step between    *)
(* two await points.                                                       *)
(***************************************************************************)
\* set_access_token without the write lock: a reader may find a value that
\* is part old and part new.
set_access_token_torn ==
    /\ \E token \in Tokens :
          /\ access_token' = IF IsSome(access_token) /\ IsSome(token) /\ token # access_token
                              THEN Some("t0t1") ELSE token
          /\ held' = held \cup {token}
    /\ UNCHANGED <<api_key, max_retries, calls, guards, webhook_vars>>

\* Lines 60-63: the write guard is had when no read guard is out; the token
\* is assigned and the guard dropped.
set_access_token ==
    /\ guards = {}
    /\ \E token \in Tokens :
          /\ access_token' = token
          /\ held' = held \cup {token}
    /\ UNCHANGED <<api_key, max_retries, calls, guards, webhook_vars>>

\* The unit value ().
Unit == [t |-> "unit", v |-> "()", f |-> EmptyMap]

AuthOps == {"login", "refresh_token", "logout"}

\* Lines 160-163, 226-246: what a resource method returns for the result
\* of its request.
resource_return(req, result) ==
    IF result.kind = "Ok" /\ req.op \in {"delete", "logout"} THEN OkValue(Unit)
    ELSE result

\* The ? operator of lines 161, 228, 234 and 243: a method returns with its
\* request, except login, refresh_token and logout after an Ok, which have
\* the token to store first.
finish(call) ==
    IF /\ call.pc = "done"
       /\ ~(Unwrap(call.req).op \in AuthOps /\ Unwrap(call.result).kind = "Ok")
    THEN [call EXCEPT !.ret = Some(resource_return(Unwrap(call.req), Unwrap(call.result)))]
    ELSE call

\* Lines 71-72: a call starts, once the slot's previous call is over; the
\* call is one of requests.
StartWith(c, requests) ==
    /\ calls[c].pc \in {"idle", "dropped"} \/ IsSome(calls[c].ret)
    /\ \E req \in requests :
          calls' = [calls EXCEPT ![c] = [IdleCall EXCEPT !.pc = "ready", !.req = Some(req)]]
    /\ UNCHANGED <<api_key, max_retries, access_token, held, guards, webhook_vars>>

Start(c) == StartWith(c, Requests)

\* Lines 80-83: a client without API key takes a read guard of the token.
\* No write guard is held from one step to the next (set_access_token drops
\* it where it takes it), so the read guard is had at once.
ReadToken(c) ==
    /\ calls[c].pc = "ready"
    /\ api_key = None
    /\ guards' = guards \cup {c}
    /\ calls' = [calls EXCEPT ![c].pc = "reading"]
    /\ UNCHANGED <<api_key, max_retries, access_token, held, webhook_vars>>

\* Send with the ceiling tested at the top of the loop, before the attempt.
Send_ceiling_first(c) ==
    /\ \/ calls[c].pc = "reading"
       \/ calls[c].pc = "ready" /\ IsSome(api_key)
    /\ calls[c].attempts < max_retries
    /\ LET req == Unwrap(calls[c].req)
       IN  calls' = [calls EXCEPT
                ![c].attempts = @ + 1,
                ![c].request = Some(build_request(req.method, <<BaseUrl, req.path>>, req.body,
                                                  api_key, access_token)),
                ![c].sends = @ + 1,
                ![c].sleep = None,
                ![c].response = None,
                ![c].pc = "sent"]
    /\ guards' = guards \ {c}
    /\ UNCHANGED <<api_key, max_retries, access_token, held, webhook_vars>>

\* Send issuing an attempt while the one before it is unanswered or its
\* sleep has not ended.
Send_unsequenced(c) ==
    /\ \/ calls[c].pc \in {"reading", "sent", "sleeping"}
       \/ calls[c].pc = "ready" /\ IsSome(api_key)
    /\ LET req == Unwrap(calls[c].req)
       IN  calls' = [calls EXCEPT
                ![c].attempts = @ + 1,
                ![c].request = Some(build_request(req.method, <<BaseUrl, req.path>>, req.body,
                                                  api_key, access_token)),
                ![c].sends = @ + 1,
                ![c].sleep = None,
                ![c].response = None,
                ![c].pc = "sent"]
    /\ guards' = guards \ {c}
    /\ UNCHANGED <<api_key, max_retries, access_token, held, webhook_vars>>

\* Send with token_guard declared in the scope of the loop body: the read
\* guard is still held while the request is sent.
Send_holds_guard(c) ==
    /\ \/ calls[c].pc = "reading"
       \/ calls[c].pc = "ready" /\ IsSome(api_key)
    /\ LET req == Unwrap(calls[c].req)
       IN  calls' = [calls EXCEPT
                ![c].attempts = @ + 1,
                ![c].request = Some(build_request(req.method, <<BaseUrl, req.path>>, req.body,
                                                  api_key, access_token)),
                ![c].sends = @ + 1,
                ![c].sleep = None,
                ![c].response = None,
                ![c].pc = "sent"]
    /\ UNCHANGED <<api_key, max_retries, access_token, held, guards, webhook_vars>>

\* The token of the Authorization header of a request, if it has one.
bearer_of(request) ==
    IF "Authorization" \in DOMAIN request.headers
    THEN Some(request.headers["Authorization"][2]) ELSE None

\* Send with the headers built once, before the loop: a retry carries the
\* token of the first attempt.
Send_caches_token(c) ==
    /\ \/ calls[c].pc = "reading"
       \/ calls[c].pc = "ready" /\ IsSome(api_key)
    /\ LET req == Unwrap(calls[c].req)
           token == IF calls[c].attempts >= 1 THEN bearer_of(Unwrap(calls[c].request))
                    ELSE access_token
       IN  calls' = [calls EXCEPT
                ![c].attempts = @ + 1,
                ![c].request = Some(build_request(req.method, <<BaseUrl, req.path>>, req.body,
                                                  api_key, token)),
                ![c].sends = @ + 1,
                ![c].sleep = None,
                ![c].response = None,
                ![c].pc = "sent"]
    /\ guards' = guards \ {c}
    /\ UNCHANGED <<api_key, max_retries, access_token, held, webhook_vars>>

\* Lines 75-94: one pass of the loop up to the send. The read guard is
\* dropped at the end of the else block (line 87), before the send.
Send(c) ==
    /\ \/ calls[c].pc = "reading"
       \/ calls[c].pc = "ready" /\ IsSome(api_key)
    /\ LET req == Unwrap(calls[c].req)
       IN  calls' = [calls EXCEPT
                ![c].attempts = @ + 1,
                ![c].request = Some(build_request(req.method, <<BaseUrl, req.path>>, req.body,
                                                  api_key, access_token)),
                ![c].sends = @ + 1,
                ![c].sleep = None,
                ![c].response = None,
                ![c].pc = "sent"]
    /\ guards' = guards \ {c}
    /\ UNCHANGED <<api_key, max_retries, access_token, held, webhook_vars>>

\* SendFails treating a transport failure as retryable.
SendFails_retries(c) ==
    /\ calls[c].pc = "sent"
    /\ calls' = [calls EXCEPT ![c] =
            IF calls[c].attempts < max_retries
            THEN [calls[c] EXCEPT
                    !.pc = "sleeping",
                    !.sleep = Some(backoff_of(calls[c].attempts)),
                    !.response = None,
                    !.log = Append(@, [status |-> 0,
                                       slept |-> Some(backoff_of(calls[c].attempts))])]
            ELSE finish([calls[c] EXCEPT
                    !.pc = "done",
                    !.result = Some(ErrValue(NetworkError)),
                    !.response = None,
                    !.log = Append(@, [status |-> 0, slept |-> None])])]
    /\ UNCHANGED <<api_key, max_retries, access_token, held, guards, webhook_vars>>

\* Line 94: send() fails; the ? operator returns the Network error.
SendFails(c) ==
    /\ calls[c].pc = "sent"
    /\ calls' = [calls EXCEPT ![c] =
            finish([calls[c] EXCEPT
                !.pc = "done",
                !.result = Some(ErrValue(NetworkError)),
                !.response = None,
                !.log = Append(@, [status |-> 0, slept |-> None])])]
    /\ UNCHANGED <<api_key, max_retries, access_token, held, guards, webhook_vars>>

\* handle_response keeping the request id of the first attempt only.
handle_response_first_id(call, response, retries) ==
    LET delay == retry_delay(response, call.attempts, retries)
        entry == [status |-> response.status, slept |-> delay]
    IN  IF is_success(response.status)
        THEN [call EXCEPT
                !.pc = "done",
                !.result = Some(decode_success(Unwrap(call.req).ty, response.body)),
                !.response = Some(response),
                !.log = Append(@, [entry EXCEPT !.slept = None])]
        ELSE IF IsSome(delay)
        THEN [call EXCEPT
                !.pc = "sleeping",
                !.sleep = delay,
                !.response = Some(response),
                !.log = Append(@, entry)]
        ELSE [call EXCEPT
                !.pc = "done",
                !.result = Some(ErrValue(from_status(response.status,
                                                     error_message(response.body),
                                                     IF call.attempts > 1 THEN None
                                                     ELSE response.request_id))),
                !.response = Some(response),
                !.log = Append(@, entry)]

\* Lines 95-144: what request does with a response.
handle_response(call, response, retries) ==
    LET delay == retry_delay(response, call.attempts, retries)
        entry == [status |-> response.status, slept |-> delay]
    IN  IF is_success(response.status)
        THEN [call EXCEPT
                !.pc = "done",
                !.result = Some(decode_success(Unwrap(call.req).ty, response.body)),
                !.response = Some(response),
                !.log = Append(@, [entry EXCEPT !.slept = None])]
        ELSE IF IsSome(delay)
        THEN [call EXCEPT
                !.pc = "sleeping",
                !.sleep = delay,
                !.response = Some(response),
                !.log = Append(@, entry)]
        ELSE [call EXCEPT
                !.pc = "done",
                !.result = Some(ErrValue(from_status(response.status,
                                                     error_message(response.body),
                                                     response.request_id))),
                !.response = Some(response),
                !.log = Append(@, entry)]

\* RespondWith forgetting the stored token when the server answers 401.
RespondWith_clears_token(c, responses) ==
    /\ calls[c].pc = "sent"
    /\ \E response \in responses :
          /\ calls' = [calls EXCEPT
                          ![c] = finish(handle_response(calls[c], response, max_retries))]
          /\ access_token' = IF response.status = 401 THEN None ELSE access_token
    /\ UNCHANGED <<api_key, max_retries, held, guards, webhook_vars>>

\* The server answers the attempt with one of responses.
RespondWith(c, responses) ==
    /\ calls[c].pc = "sent"
    /\ \E response \in responses :
          calls' = [calls EXCEPT ![c] = finish(handle_response(calls[c], response, max_retries))]
    /\ UNCHANGED <<api_key, max_retries, access_token, held, guards, webhook_vars>>

Respond(c) == RespondWith(c, Responses)

\* Lines 129-130 and 135-136: the sleep ends; continue.
Wake(c) ==
    /\ calls[c].pc = "sleeping"
    /\ calls' = [calls EXCEPT ![c].pc = "ready"]
    /\ UNCHANGED <<api_key, max_retries, access_token, held, guards, webhook_vars>>

\* stored_token keeping the refresh token of the response.
stored_token_refresh(op, value) ==
    IF op = "logout" THEN None ELSE Some(value.refresh_token)

\* Lines 229, 235 and 244: the token login, refresh_token and logout store.
stored_token(op, value) ==
    IF op = "logout" THEN None ELSE Some(value.access_token)

\* Lines 229-230, 235-236 and 244-245: after an Ok, login, refresh_token and
\* logout call set_access_token and return.
AuthStore(c) ==
    /\ calls[c].pc = "done"
    /\ calls[c].ret = None
    /\ guards = {}
    /\ LET req == Unwrap(calls[c].req)
           result == Unwrap(calls[c].result)
           token == stored_token(req.op, Unwrap(result.value))
       IN  /\ access_token' = token
           /\ held' = held \cup {token}
           /\ calls' = [calls EXCEPT ![c].ret = Some(resource_return(req, result))]
    /\ UNCHANGED <<api_key, max_retries, guards, webhook_vars>>

\* The future of a call is dropped at one of the awaits of request (lines
\* 94, 129 and 135): the call makes no further step.
Abandon(c) ==
    /\ calls[c].pc \in {"sent", "sleeping"}
    /\ calls' = [calls EXCEPT ![c].pc = "dropped"]
    /\ UNCHANGED <<api_key, max_retries, access_token, held, guards, webhook_vars>>

\* LinktorClientBuilder::build: the client as built, no call made yet.
Init ==
    /\ api_key \in {None, Some("key-1")}
    /\ max_retries \in 0..MaxRetries
    /\ access_token \in {None, Some("t0")}
    /\ held = {access_token}
    /\ guards = {}
    /\ calls = [c \in OneCall |-> IdleCall]
    /\ wh_in = <<>>
    /\ wh_out = NoOut

Next ==
    \/ set_access_token
    \/ \E c \in OneCall : Start(c)
    \/ \E c \in OneCall : ReadToken(c)
    \/ \E c \in OneCall : Send(c)
    \/ \E c \in OneCall : SendFails(c)
    \/ \E c \in OneCall : Respond(c)
    \/ \E c \in OneCall : Wake(c)
    \/ \E c \in OneCall : AuthStore(c)
    \/ \E c \in OneCall : Abandon(c)

Spec == Init /\ [][Next]_vars

(***************************************************************************)
(* ConcurrentSpec: two calls in flight at once on clones of one client     *)
(* built with or without an API key and with max_retries(2), the token     *)
(* being replaced meanwhile by the caller and by login, refresh_token and  *)
(* logout.                                                                 *)
(***************************************************************************)
TwoCalls == {"c1", "c2"}

ConcurrentRequests == {req \in Requests : req.op \in {"get"} \cup AuthOps}

ConcurrentResponses ==
    { Response(200, None, None, TextBody(EnvelopeLogin)),
      Response(401, None, Some("req-1"), TextBody(ApiErrorDoc)),
      Response(503, None, Some("req-1"), TextBody(ApiErrorDoc)) }

ConcurrentInit ==
    /\ api_key \in {None, Some("key-1")}
    /\ max_retries = 2
    /\ access_token \in {None, Some("t0")}
    /\ held = {access_token}
    /\ guards = {}
    /\ calls = [c \in TwoCalls |-> IdleCall]
    /\ wh_in = <<>>
    /\ wh_out = NoOut

ConcurrentNext ==
    \/ set_access_token
    \/ \E c \in TwoCalls : StartWith(c, ConcurrentRequests)
    \/ \E c \in TwoCalls : ReadToken(c)
    \/ \E c \in TwoCalls : Send(c)
    \/ \E c \in TwoCalls : SendFails(c)
    \/ \E c \in TwoCalls : RespondWith(c, ConcurrentResponses)
    \/ \E c \in TwoCalls : Wake(c)
    \/ \E c \in TwoCalls : AuthStore(c)
    \/ \E c \in TwoCalls : Abandon(c)

ConcurrentSpec == ConcurrentInit /\ [][ConcurrentNext]_vars

(***************************************************************************)
(* MethodSpec: one call at a time, made with each of the methods get,      *)
(* post, patch and delete, answered by a few responses of every class.     *)
(***************************************************************************)
MethodRequests ==
    Requests \cup
    { [op |-> "patch", handle |-> "contacts", method |-> "PATCH", path |-> "/contacts/1",
       body |-> Some("{name}"), ty |-> "Value"] }

\* An API error with details and a field ApiError does not name.
ApiErrorDetailed ==
    ObjectText("{detailed}", [code |-> Str("E2"), message |-> Str("denied"),
                              details |-> Object(Entry("field", Str("email"))),
                              traceId |-> Str("tr-1")])

MethodResponses ==
    { Response(200, None, None, TextBody(EnvelopeLogin)),
      Response(400, None, Some("req-1"), TextBody(EnvelopeFail)),
      Response(403, None, Some("req-1"), TextBody(ApiErrorDetailed)),
      Response(404, None, Some("req-1"), TextBody(ApiErrorDoc)),
      Response(409, None, None, EmptyBody),
      Response(429, None, Some("req-1"), TextBody(ApiErrorDoc)),
      Response(429, Some(<<"2">>), None, TextBody(Garbage)),
      Response(500, None, None, TextBody(Garbage)),
      Response(503, None, Some("req-1"), TextBody(ApiErrorDoc)),
      Response(599, None, None, UnreadableBody) }

MethodNext ==
    \/ set_access_token
    \/ \E c \in OneCall : StartWith(c, MethodRequests)
    \/ \E c \in OneCall : ReadToken(c)
    \/ \E c \in OneCall : Send(c)
    \/ \E c \in OneCall : SendFails(c)
    \/ \E c \in OneCall : RespondWith(c, MethodResponses)
    \/ \E c \in OneCall : Wake(c)
    \/ \E c \in OneCall : AuthStore(c)
    \/ \E c \in OneCall : Abandon(c)

MethodSpec == Init /\ [][MethodNext]_vars

(***************************************************************************)
(* TerminationSpec: calls whose future is polled to the end. Every send    *)
(* returns, with a response or with a failure, and every sleep elapses; a  *)
(* call at the top of its loop goes on to read the token and to send.      *)
(***************************************************************************)
TerminationResponses ==
    { Response(200, None, None, TextBody(EnvelopeLogin)),
      Response(404, None, Some("req-1"), TextBody(ApiErrorDoc)),
      Response(429, Some(<<"2">>), Some("req-1"), TextBody(ApiErrorDoc)),
      Response(503, None, Some("req-1"), TextBody(ApiErrorDoc)) }

TerminationNext ==
    \/ set_access_token
    \/ \E c \in OneCall : StartWith(c, ConcurrentRequests)
    \/ \E c \in OneCall : ReadToken(c)
    \/ \E c \in OneCall : Send(c)
    \/ \E c \in OneCall : SendFails(c)
    \/ \E c \in OneCall : RespondWith(c, TerminationResponses)
    \/ \E c \in OneCall : Wake(c)
    \/ \E c \in OneCall : AuthStore(c)

TerminationSpec ==
    /\ Init
    /\ [][TerminationNext]_vars
    /\ \A c \in OneCall :
          /\ WF_vars(ReadToken(c))
          /\ WF_vars(Send(c))
          /\ WF_vars(SendFails(c) \/ RespondWith(c, TerminationResponses))
          /\ WF_vars(Wake(c))

(***************************************************************************)
(* WebhookSpec: the webhook functions applied to the inputs.               *)
(***************************************************************************)
WebhookInit ==
    /\ wh_in \in WebhookInputs
    /\ wh_out = NoOut
    /\ api_key = None
    /\ max_retries = 3
    /\ access_token = None
    /\ held = {None}
    /\ guards = {}
    /\ calls = [c \in OneCall |-> IdleCall]

ComputeSignature ==
    /\ wh_out.op = "none"
    /\ wh_out' = [NoOut EXCEPT !.op = "compute_signature",
                                !.signature = compute_signature(wh_in.payload, wh_in.secret)]
    /\ UNCHANGED <<wh_in, client_vars>>

VerifySignature ==
    /\ wh_out.op = "none"
    /\ LET signature == unwrap_or(get(wh_in.headers, SIGNATURE_HEADER), <<>>)
       IN  wh_out' = [NoOut EXCEPT !.op = "verify_signature",
                                   !.signature = signature,
                                   !.ret = IF verify_signature(wh_in.payload, signature, wh_in.secret)
                                           THEN "true" ELSE "false",
                                   !.steps = compare_steps(wh_in.payload, signature,
                                                           wh_in.secret)]
    /\ UNCHANGED <<wh_in, client_vars>>

Verify ==
    /\ wh_out.op = "none"
    /\ wh_out' = [NoOut EXCEPT !.op = "verify",
                                !.ret = verify(wh_in.payload, wh_in.headers, wh_in.secret,
                                               wh_in.tolerance_seconds, wh_in.now,
                                               wh_in.overflow_checks)]
    /\ UNCHANGED <<wh_in, client_vars>>

ConstructEvent ==
    /\ wh_out.op = "none"
    /\ wh_out' = [NoOut EXCEPT !.op = "construct_event",
                                !.result = construct_event(wh_in.payload, wh_in.headers,
                                                           wh_in.secret, wh_in.tolerance_seconds,
                                                           wh_in.now, wh_in.overflow_checks)]
    /\ UNCHANGED <<wh_in, client_vars>>

\* get_event_type called on the event construct_event returned.
GetEventType ==
    /\ wh_out.op = "construct_event"
    /\ wh_out.result.kind = "Ok"
    /\ wh_out' = [wh_out EXCEPT !.op = "get_event_type",
                                 !.event_type = get_event_type(Unwrap(wh_out.result.event))]
    /\ UNCHANGED <<wh_in, client_vars>>

WebhookNext ==
    ComputeSignature \/ VerifySignature \/ Verify \/ ConstructEvent \/ GetEventType

WebhookSpec == WebhookInit /\ [][WebhookNext]_vars

(***************************************************************************)
(* The properties. What a property says of the headers is stated with the  *)
(* lookup of the design: the value under the canonical name, else the      *)
(* value under the all-lowercase name.                                     *)
(***************************************************************************)
HeaderRead(headers, name) ==
    IF name \in DOMAIN headers THEN Some(headers[name])
    ELSE IF to_lowercase(name) \in DOMAIN headers THEN Some(headers[to_lowercase(name)])
    ELSE None

BoolStr(b) == IF b THEN "true" ELSE "false"

Abs(x) == IF x < 0 THEN 0 - x ELSE x

\* The header carries the signature verify_signature accepts for the payload.
ValidSignature(in) ==
    /\ in.secret # <<>>
    /\ HeaderRead(in.headers, SIGNATURE_HEADER) = Some(compute_signature(in.payload, in.secret))

\* The tolerance of a verify call: the supplied value, 300 when none is.
ToleranceOf(in) ==
    IF in.tolerance_seconds = None THEN DEFAULT_TOLERANCE_SECONDS
    ELSE Unwrap(in.tolerance_seconds)

\* C1: for max_retries >= 1 a call hands at most max_retries requests to the
\* transport, whatever mix of 429 and 5xx it is answered with, and its
\* attempt counter is the number of requests sent (1 at the first attempt).
C1_AtMostMaxRetriesAttempts ==
    \A c \in DOMAIN calls :
        max_retries >= 1 =>
            /\ calls[c].sends <= max_retries
            /\ calls[c].attempts = calls[c].sends
            /\ Len(calls[c].log) <= max_retries

C1_Witness ==
    \E c \in DOMAIN calls :
        /\ max_retries = 3
        /\ calls[c].pc = "done"
        /\ calls[c].sends = 3
        /\ calls[c].log[1].status = 429
        /\ calls[c].log[2].status = 503

AuthShape(headers, key, token) ==
    IF IsSome(key)
    THEN /\ "X-API-Key" \in DOMAIN headers
         /\ headers["X-API-Key"] = <<Unwrap(key)>>
         /\ "Authorization" \notin DOMAIN headers
    ELSE IF IsSome(token)
    THEN /\ "Authorization" \in DOMAIN headers
         /\ headers["Authorization"] = <<"Bearer ", Unwrap(token)>>
         /\ "X-API-Key" \notin DOMAIN headers
    ELSE /\ "Authorization" \notin DOMAIN headers
         /\ "X-API-Key" \notin DOMAIN headers

\* C2: the request of every attempt carries X-API-Key alone when an API key
\* is configured, else Authorization: Bearer <token> alone when a token is
\* stored at that moment, else neither header; never both.
C2_OneAuthenticationShape ==
    [][\A c \in DOMAIN calls :
          (calls[c].pc \in {"ready", "reading"} /\ calls'[c].pc = "sent") =>
              /\ AuthShape(Unwrap(calls'[c].request).headers, api_key, access_token)
              /\ ~({"X-API-Key", "Authorization"}
                      \subseteq DOMAIN Unwrap(calls'[c].request).headers)]_vars

C2_Witness ==
    \E c \in DOMAIN calls :
        /\ calls[c].pc = "sent"
        /\ calls[c].attempts = 2
        /\ IsSome(api_key)
        /\ IsSome(access_token)
        /\ DOMAIN Unwrap(calls[c].request).headers = {"X-API-Key"}

\* The verdict of verify for the arguments of a construct_event call: the
\* tolerance handed on is the supplied one, 300 for None and for Some(0).
GateOf(in) ==
    verify(in.payload, in.headers, in.secret,
           Some(IF in.tolerance_seconds \in {None, Some(0)} THEN DEFAULT_TOLERANCE_SECONDS
                ELSE Unwrap(in.tolerance_seconds)),
           in.now, in.overflow_checks)

\* C3: construct_event returns Ok(event) only if verify returned true; when
\* verify returns false the result is Err(WebhookVerification) with no
\* event; and the payload is decoded only after verify returned true.
C3_EventOnlyThroughGate ==
    wh_out.op = "construct_event" =>
        /\ (wh_out.result.kind = "Ok" => GateOf(wh_in) = "true")
        /\ (wh_out.result.decoded => GateOf(wh_in) = "true")
        /\ (IsSome(wh_out.result.event) => wh_out.result.kind = "Ok")
        /\ (GateOf(wh_in) = "false" =>
                /\ wh_out.result.kind = "Err"
                /\ Unwrap(wh_out.result.error).variant = "WebhookVerification"
                /\ wh_out.result.event = None)

C3_Witness ==
    /\ wh_out.op = "construct_event"
    /\ wh_out.result.kind = "Ok"
    /\ Unwrap(wh_out.result.event).id = "evt_1"
    /\ HeaderRead(wh_in.headers, TIMESTAMP_HEADER) # None

BadSignature(in) ==
    LET signature == HeaderRead(in.headers, SIGNATURE_HEADER)
    IN  \/ signature = None
        \/ Unwrap(signature) = <<>>
        \/ Unwrap(signature) # compute_signature(in.payload, in.secret)

\* C4: verify returns false whenever the signature header is absent, empty
\* or different from the HMAC of the payload, whatever the timestamp header.
C4_BadSignatureReturnsFalse ==
    (wh_out.op = "verify" /\ BadSignature(wh_in)) => wh_out.ret = "false"

\* C5: with a valid signature and a timestamp header that parses as an
\* integer, verify returns true exactly when |now - timestamp| <= tolerance;
\* with a timestamp header that does not parse it returns false.
C5_ToleranceWindowExact ==
    LET timestamp_str == HeaderRead(wh_in.headers, TIMESTAMP_HEADER)
        timestamp == parse_i64(Unwrap(timestamp_str))
    IN  (wh_out.op = "verify" /\ ValidSignature(wh_in) /\ IsSome(timestamp_str)) =>
            IF IsSome(timestamp)
            THEN (wh_out.ret = "true") <=>
                    (Abs(wh_in.now - Unwrap(timestamp)) <= ToleranceOf(wh_in))
            ELSE wh_out.ret = "false"

\* C6: without a timestamp header verify makes no timestamp check: for every
\* tolerance its result is that of verify_signature on the signature header.
C6_NoTimestampNoCheck ==
    (wh_out.op = "verify" /\ HeaderRead(wh_in.headers, TIMESTAMP_HEADER) = None) =>
        wh_out.ret = BoolStr(verify_signature(
                                wh_in.payload,
                                unwrap_or(HeaderRead(wh_in.headers, SIGNATURE_HEADER), <<>>),
                                wh_in.secret))

C6_Witness ==
    /\ wh_out.op = "verify"
    /\ HeaderRead(wh_in.headers, TIMESTAMP_HEADER) = None
    /\ wh_in.tolerance_seconds = Some(0 - 1)
    /\ wh_out.ret = "true"

\* C7 as claimed: verify with a tolerance of Some(0) returns what verify
\* with None returns.
C7_ZeroToleranceIsDefault ==
    (wh_out.op = "verify" /\ wh_in.tolerance_seconds = Some(0)) =>
        wh_out.ret = verify(wh_in.payload, wh_in.headers, wh_in.secret, None,
                            wh_in.now, wh_in.overflow_checks)

\* The timestamp header parses to a time 1 to 300 seconds away from now.
OffNowWithinDefault(in) ==
    LET timestamp_str == HeaderRead(in.headers, TIMESTAMP_HEADER)
    IN  /\ IsSome(timestamp_str)
        /\ IsSome(parse_i64(Unwrap(timestamp_str)))
        /\ Abs(in.now - Unwrap(parse_i64(Unwrap(timestamp_str)))) >= 1
        /\ Abs(in.now - Unwrap(parse_i64(Unwrap(timestamp_str)))) <= DEFAULT_TOLERANCE_SECONDS

\* C7 as amended: verify applies a tolerance of Some(0) as a window of zero
\* seconds. It returns false where verify with None returns true exactly
\* for a valid signature with a timestamp 1 to 300 seconds away from now,
\* and returns what verify with None returns on every other input.
C7_ZeroToleranceIsLiteral ==
    (wh_out.op = "verify" /\ wh_in.tolerance_seconds = Some(0)) =>
        LET default == verify(wh_in.payload, wh_in.headers, wh_in.secret, None,
                              wh_in.now, wh_in.overflow_checks)
        IN  IF ValidSignature(wh_in) /\ OffNowWithinDefault(wh_in)
            THEN wh_out.ret = "false" /\ default = "true"
            ELSE wh_out.ret = default

C7_Witness ==
    /\ wh_out.op = "verify"
    /\ wh_in.tolerance_seconds = Some(0)
    /\ ValidSignature(wh_in)
    /\ HeaderRead(wh_in.headers, TIMESTAMP_HEADER) = Some(to_string(wh_in.now - 1))
    /\ wh_out.ret = "false"

\* C8: construct_event fails with WebhookVerification when verification
\* fails, when the payload does not decode as a WebhookEvent or when the
\* decoded id or type is empty; otherwise it returns the decoded event.
C8_ConstructEventOutcomes ==
    wh_out.op = "construct_event" =>
        LET event == WebhookEvent_from_slice(wh_in.payload)
            rejected == \/ GateOf(wh_in) # "true"
                        \/ ~IsSome(event)
                        \/ Unwrap(event).id = ""
                        \/ Unwrap(event).event_type = ""
        IN  IF rejected
            THEN /\ wh_out.result.kind = "Err"
                 /\ Unwrap(wh_out.result.error).variant = "WebhookVerification"
            ELSE /\ wh_out.result.kind = "Ok"
                 /\ wh_out.result.event = event

\* The header map with every name written in the casing of the constants.
Canonical(name) ==
    IF to_lowercase(name) = to_lowercase(SIGNATURE_HEADER) THEN SIGNATURE_HEADER
    ELSE IF to_lowercase(name) = to_lowercase(TIMESTAMP_HEADER) THEN TIMESTAMP_HEADER
    ELSE name

UniqueNames(headers) ==
    \A j, k \in DOMAIN headers : Canonical(j) = Canonical(k) => j = k

Canonicalised(headers) ==
    [n \in {Canonical(k) : k \in DOMAIN headers} |->
        headers[CHOOSE k \in DOMAIN headers : Canonical(k) = n]]

\* C9: the two headers are found under every casing of their names: verify
\* returns what it returns for the same headers under the canonical names.
C9_CaseInsensitiveLookup ==
    (wh_out.op = "verify" /\ UniqueNames(wh_in.headers)) =>
        wh_out.ret = verify(wh_in.payload, Canonicalised(wh_in.headers), wh_in.secret,
                            wh_in.tolerance_seconds, wh_in.now, wh_in.overflow_checks)

RECURSIVE DecimalValue(_)
DecimalValue(s) ==
    IF s = <<>> THEN 0
    ELSE (DecimalValue(SubSeq(s, 1, Len(s) - 1)) * 10) + DigitValue(s[Len(s)])

\* The seconds a Retry-After header asks for: its value when it is a
\* non-negative decimal integer (an optional + sign, then digits) that fits
\* the unsigned 64-bit delay, else the default of 60.
ExpectedRetryAfter(header) ==
    IF header = None THEN 60
    ELSE LET s == Unwrap(header)
             d == IF s # <<>> /\ s[1] = "+" THEN Tail(s) ELSE s
         IN  IF /\ d # <<>>
                /\ \A i \in 1..Len(d) : IsDigitChar(d[i])
                /\ DecimalValue(d) <= U64_MAX
             THEN DecimalValue(d) ELSE 60

\* C11: a 429 received at attempt k < max_retries puts the call to sleep for
\* the seconds of that response's Retry-After header (60 when the header is
\* absent or no non-negative integer); the sleep sends nothing and is
\* followed by exactly one more attempt. With Retry-After: 2 and
\* max_retries = 3, a 429 followed by a 2xx is two requests in all, the
\* second one after the sleep of 2 seconds.
C11_RateLimitRetry ==
    [][\A c \in DOMAIN calls :
          LET old == calls[c]
              new == calls'[c]
          IN  /\ (/\ old.pc = "sent"
                  /\ new.pc \notin {"sent", "dropped"}
                  /\ IsSome(new.response)
                  /\ Unwrap(new.response).status = 429
                  /\ old.attempts < max_retries)
                    => /\ new.pc = "sleeping"
                       /\ new.sleep = Some(ExpectedRetryAfter(Unwrap(new.response).retry_after))
                       /\ new.sends = old.sends
                       /\ new.attempts = old.attempts
              /\ (old.pc = "sleeping" /\ new # old)
                    => /\ new.pc \in {"ready", "dropped"}
                       /\ new.sends = old.sends
                       /\ new.sleep = old.sleep
              /\ (old.pc \in {"ready", "reading"} /\ old.attempts >= 1 /\ new # old)
                    => /\ IsSome(old.sleep)
                       /\ \/ /\ old.pc = "ready"
                             /\ new = [old EXCEPT !.pc = "reading"]
                          \/ /\ new.pc = "sent"
                             /\ new.sends = old.sends + 1
                             /\ new.attempts = old.attempts + 1
              /\ (/\ max_retries = 3
                  /\ new.pc = "done"
                  /\ Len(new.log) >= 2
                  /\ new.log[1] = [status |-> 429, slept |-> Some(2)]
                  /\ is_success(new.log[2].status))
                    => /\ Len(new.log) = 2
                       /\ new.sends = 2
                       /\ new.attempts = 2]_vars

C11_Witness ==
    \E c \in DOMAIN calls :
        /\ max_retries = 3
        /\ calls[c].pc = "done"
        /\ calls[c].sends = 2
        /\ calls[c].log = << [status |-> 429, slept |-> Some(2)],
                             [status |-> 200, slept |-> None] >>
        /\ Unwrap(calls[c].result).kind = "Ok"

(***************************************************************************)
(* Transport and decoding failures.                                        *)
(***************************************************************************)
ErrorVariant(call) == Unwrap(Unwrap(call.result).error).variant

\* C12: a failed send, at any attempt, ends the call at once with a Network
\* error, and so does a 2xx body that cannot be read; a 2xx body that is
\* read and does not decode as T ends it with a Serialization error. The
\* call then sleeps no more and sends no more, whatever attempts remain.
C12_NetworkAndSerializationNotRetried ==
    [][\A c \in DOMAIN calls :
          LET old == calls[c]
              new == calls'[c]
              answered == old.pc = "sent" /\ new.pc \notin {"sent", "dropped"}
              body == Unwrap(new.response).body
          IN  /\ (answered /\ new.response = None)
                    => /\ new.pc = "done"
                       /\ Unwrap(new.result).kind = "Err"
                       /\ ErrorVariant(new) = "Network"
                       /\ new.sleep = None
                       /\ new.sends = old.sends
                       /\ new.ret = new.result
              /\ (answered /\ IsSome(new.response) /\ is_success(Unwrap(new.response).status))
                    => /\ new.pc = "done"
                       /\ new.sleep = None
                       /\ new.sends = old.sends
                       /\ ~body.readable =>
                              /\ Unwrap(new.result).kind = "Err"
                              /\ ErrorVariant(new) = "Network"
                       /\ (body.readable /\ Unwrap(new.result).kind = "Err") =>
                              /\ ErrorVariant(new) = "Serialization"
                              /\ new.ret = new.result
                       /\ body = TextBody(Garbage) =>
                              /\ Unwrap(new.result).kind = "Err"
                              /\ ErrorVariant(new) = "Serialization"
              /\ (old.pc = "done" /\ Unwrap(old.result).kind = "Err" /\ new # old)
                    => /\ new.pc = "ready"
                       /\ new.sends = 0
                       /\ new.attempts = 0]_vars

C12_Witness ==
    \E c \in DOMAIN calls :
        /\ max_retries = 3
        /\ calls[c].pc = "done"
        /\ calls[c].attempts = 2
        /\ calls[c].sends = 2
        /\ calls[c].log = << [status |-> 503, slept |-> Some(2)],
                             [status |-> 0, slept |-> None] >>
        /\ ErrorVariant(calls[c]) = "Network"

(***************************************************************************)
(* The errors translated from a response status.                           *)
(***************************************************************************)
\* The call ended in the error-translation step: it returned on a response
\* that was no 2xx.
Translated(call) ==
    /\ call.pc = "done"
    /\ IsSome(call.response)
    /\ ~is_success(Unwrap(call.response).status)

KindOfStatus(status) ==
    CASE status = 400 -> "Validation"
      [] status = 401 -> "Authentication"
      [] status = 403 -> "Authorization"
      [] status = 404 -> "NotFound"
      [] status = 429 -> "RateLimit"
      [] status \in 500..599 -> "Server"
      [] OTHER -> "Unknown"

\* C13: the error a call returns on a final non-2xx response is Validation
\* for 400, Authentication for 401, Authorization for 403, NotFound for 404,
\* RateLimit for 429, Server for 500..599 and Unknown, carrying the status
\* number, for every other status.
C13_StatusTaxonomy ==
    \A c \in DOMAIN calls :
        Translated(calls[c]) =>
            LET status == Unwrap(calls[c].response).status
                error == Unwrap(Unwrap(calls[c].result).error)
            IN  /\ Unwrap(calls[c].result).kind = "Err"
                /\ error.variant = KindOfStatus(status)
                /\ (error.variant = "Unknown") = IsSome(error.status_code)
                /\ error.variant = "Unknown" => error.status_code = Some(status)

C13_Witness ==
    \E c \in DOMAIN calls :
        /\ Translated(calls[c])
        /\ Unwrap(calls[c].response).status = 600
        /\ Unwrap(Unwrap(calls[c].result).error).variant = "Unknown"
        /\ Unwrap(Unwrap(calls[c].result).error).status_code = Some(600)

\* C14: the error a call returns on a final non-2xx response carries the
\* X-Request-ID of that response whenever the response had one, whatever
\* the status, and LinktorError::request_id returns it.
C14_RequestIdEchoed ==
    \A c \in DOMAIN calls :
        (Translated(calls[c]) /\ IsSome(Unwrap(calls[c].response).request_id)) =>
            LET error == Unwrap(Unwrap(calls[c].result).error)
            IN  request_id_of(error) = Unwrap(calls[c].response).request_id

\* C15: the RateLimit error of a final 429 carries as its retry-after hint
\* the seconds of that response's Retry-After header, and 60 only when the
\* header is absent or no non-negative integer.
C15_RateLimitHint ==
    \A c \in DOMAIN calls :
        (Translated(calls[c]) /\ Unwrap(calls[c].response).status = 429) =>
            LET error == Unwrap(Unwrap(calls[c].result).error)
            IN  /\ error.variant = "RateLimit"
                /\ error.retry_after =
                      Some(ExpectedRetryAfter(Unwrap(calls[c].response).retry_after))

(***************************************************************************)
(* Decoding a 2xx body.                                                    *)
(***************************************************************************)
\* The call returned on a 2xx response whose body was read and not empty.
DecodedText(call) ==
    /\ call.pc = "done"
    /\ IsSome(call.response)
    /\ is_success(Unwrap(call.response).status)
    /\ Unwrap(call.response).body.readable
    /\ ~Unwrap(call.response).body.empty

Present(doc, name) == name \in DOMAIN doc.f /\ doc.f[name].t # "null"

\* doc is an envelope {success, data?, error?} for T marking success and
\* holding a data payload.
EnvelopeWithData(ty, doc) ==
    /\ doc.t = "object"
    /\ "success" \in DOMAIN doc.f
    /\ doc.f["success"] = Bool("true")
    /\ Present(doc, "data")
    /\ IsSome(from_str(ty, doc.f["data"]))
    /\ Present(doc, "error") => IsSome(ApiError_from_str(doc.f["error"]))

\* doc is written {"success": true, "data": X}.
Wrapped(doc) ==
    /\ doc.t = "object"
    /\ DOMAIN doc.f = {"success", "data"}
    /\ doc.f["success"] = Bool("true")

DecodedAs(ty, doc) ==
    IF IsSome(from_str(ty, doc)) THEN OkValue(Unwrap(from_str(ty, doc)))
    ELSE ErrValue(SerializationError)

EnvelopeOrRaw(call) ==
    LET ty == Unwrap(call.req).ty
        text == Unwrap(call.response).body.text
    IN  Unwrap(call.result) =
            IF EnvelopeWithData(ty, text) THEN DecodedAs(ty, text.f["data"])
            ELSE DecodedAs(ty, text)

\* C16 as claimed: request returns the data payload exactly for an envelope
\* marking success and holding data, the raw body decoded as T otherwise;
\* and for every X the body {"success": true, "data": X} gives the result
\* the bare body X gives.
C16_WrappedEqualsBare ==
    \A c \in DOMAIN calls :
        DecodedText(calls[c]) =>
            LET ty == Unwrap(calls[c].req).ty
                text == Unwrap(calls[c].response).body.text
            IN  /\ EnvelopeOrRaw(calls[c])
                /\ Wrapped(text) =>
                      Unwrap(calls[c].result) = decode_success(ty, TextBody(text.f["data"]))

\* C16 as amended: the same, the wrapped body and the bare body X agreeing
\* for every X that decodes as T, is not null and is not itself an object
\* with success = true and a data payload.
C16_EnvelopeOrRawBody ==
    \A c \in DOMAIN calls :
        DecodedText(calls[c]) =>
            LET ty == Unwrap(calls[c].req).ty
                text == Unwrap(calls[c].response).body.text
                X == text.f["data"]
            IN  /\ EnvelopeOrRaw(calls[c])
                /\ (/\ Wrapped(text)
                    /\ X.t # "null"
                    /\ IsSome(from_str(ty, X))
                    /\ ~(/\ X.t = "object"
                         /\ "success" \in DOMAIN X.f
                         /\ X.f["success"] = Bool("true")
                         /\ Present(X, "data")))
                      => Unwrap(calls[c].result) = decode_success(ty, TextBody(X))

C16_Witness ==
    \E c \in DOMAIN calls :
        /\ DecodedText(calls[c])
        /\ Unwrap(calls[c].req).ty = "RefreshTokenResponse"
        /\ Unwrap(calls[c].response).body = TextBody(EnvelopeOk)
        /\ calls[c].result = Some(OkValue([access_token |-> "t1", refresh_token |-> "r1",
                                           expires_in |-> "3600"]))
        /\ calls[c].result = Some(decode_success("RefreshTokenResponse", TextBody(BareDoc)))

\* The call returned on a 2xx response whose body was read and empty.
DecodedEmpty(call) ==
    /\ call.pc = "done"
    /\ IsSome(call.response)
    /\ is_success(Unwrap(call.response).status)
    /\ Unwrap(call.response).body = EmptyBody

\* C17: a 2xx response with an empty body ends the call at that attempt
\* with a success, the null value of T, for every target type T of the
\* resource methods; the method returns a success too, delete returning
\* Ok(()).
C17_EmptyBodyIsUnit ==
    \A c \in DOMAIN calls :
        DecodedEmpty(calls[c]) =>
            /\ Unwrap(calls[c].result).kind = "Ok"
            /\ Unwrap(Unwrap(calls[c].result).value).t = "null"
            /\ calls[c].sleep = None
            /\ IsSome(calls[c].ret) => Unwrap(calls[c].ret).kind = "Ok"
            /\ (IsSome(calls[c].ret) /\ Unwrap(calls[c].req).op = "delete")
                  => calls[c].ret = Some(OkValue(Unit))

(***************************************************************************)
(* The Credential Store.                                                   *)
(***************************************************************************)
\* C18: with no API key, the request of every attempt carries as its bearer
\* token one of the values the store has held whole (the token the client
\* was built with or one given to set_access_token), and carries no
\* Authorization header only if the store has held none; this under every
\* interleaving of set_access_token with the attempts and sleeps of a call.
C18_TokenNeverTorn ==
    \A c \in DOMAIN calls :
        (api_key = None /\ IsSome(calls[c].request)) =>
            LET headers == Unwrap(calls[c].request).headers
            IN  /\ "X-API-Key" \notin DOMAIN headers
                /\ IF "Authorization" \in DOMAIN headers
                   THEN \E t \in held :
                           /\ IsSome(t)
                           /\ headers["Authorization"] = <<"Bearer ", Unwrap(t)>>
                   ELSE None \in held

\* Two calls in flight, the token replaced between the send of one and the
\* retry of the other.
C18_Witness ==
    \E c, d \in DOMAIN calls :
        /\ api_key = None
        /\ held = {Some("t0"), Some("t1")}
        /\ calls[c].pc = "sent"
        /\ calls[c].attempts = 1
        /\ Unwrap(calls[c].request).headers["Authorization"] = <<"Bearer ", "t0">>
        /\ calls[d].pc = "sent"
        /\ calls[d].attempts = 2
        /\ calls[d].log = << [status |-> 503, slept |-> Some(2)] >>
        /\ Unwrap(calls[d].request).headers["Authorization"] = <<"Bearer ", "t1">>

\* The step is login, refresh_token or logout of call c storing its token:
\* the request had returned Ok and the method now returns.
StoresToken(c) ==
    /\ calls[c].pc = "done"
    /\ Unwrap(calls[c].req).op \in AuthOps
    /\ Unwrap(calls[c].result).kind = "Ok"
    /\ calls[c].ret = None
    /\ IsSome(calls'[c].ret)
    /\ calls'[c] = [calls[c] EXCEPT !.ret = calls'[c].ret]

\* C19: no step of request writes the Credential Store. The start of a
\* call, an attempt, a failed send, the handling of a response (success,
\* error or sleep), the end of a sleep and the abandonment of a call all
\* leave the stored token as it is; it changes only in set_access_token,
\* called by the user or by login, refresh_token and logout after their
\* request has returned.
C19_RequestLeavesStoreAlone ==
    [][/\ (access_token' # access_token \/ held' # held) =>
              \/ calls' = calls
              \/ \E c \in DOMAIN calls :
                    /\ StoresToken(c)
                    /\ \A d \in DOMAIN calls \ {c} : calls'[d] = calls[d]
       /\ \A c \in DOMAIN calls :
              (calls'[c] # calls[c] /\ ~StoresToken(c)) =>
                  /\ access_token' = access_token
                  /\ held' = held]_vars

\* A call abandoned in the middle of its retry sequence, the token as built.
C19_Witness ==
    \E c \in DOMAIN calls :
        /\ calls[c].pc = "dropped"
        /\ calls[c].attempts = 2
        /\ calls[c].log = << [status |-> 429, slept |-> Some(60)] >>
        /\ calls[c].sleep = None
        /\ access_token = Some("t0")
        /\ held = {Some("t0")}

\* The accessToken of the document a 2xx response delivers, bare or in an
\* envelope.
AccessTokenOf(doc) ==
    IF "data" \in DOMAIN doc.f THEN doc.f["data"].f["accessToken"].v
    ELSE doc.f["accessToken"].v

IsLoginOrRefresh(call) == Unwrap(call.req).op \in {"login", "refresh_token"}

\* login and refresh_token store a token exactly when their request
\* succeeded: after an Ok they replace the stored token by the accessToken
\* of the response and return the response, after an Err they return the
\* error with the store as it was.
StoresOnSuccessOnly(c) ==
    LET old == calls[c]
        new == calls'[c]
    IN  /\ (IsSome(old.req) /\ IsLoginOrRefresh(old) /\ StoresToken(c))
              => /\ access_token' = Some(AccessTokenOf(Unwrap(old.response).body.text))
                 /\ new.ret = old.result
        /\ (/\ IsSome(new.req)
            /\ IsLoginOrRefresh(new)
            /\ old.ret = None
            /\ IsSome(new.ret))
              => IF Unwrap(new.result).kind = "Ok"
                 THEN StoresToken(c)
                 ELSE /\ access_token' = access_token
                      /\ new.ret = new.result

\* login or refresh_token of call c has returned Ok and the token it
\* stored is the one in the store.
StoredBy(c) ==
    /\ IsSome(calls[c].req)
    /\ IsLoginOrRefresh(calls[c])
    /\ IsSome(calls[c].ret)
    /\ Unwrap(calls[c].ret).kind = "Ok"
    /\ access_token = Some(Unwrap(Unwrap(calls[c].ret).value).access_token)

\* With the token of a login or refresh_token in the store, the attempt
\* call d sends in this step carries that token.
CarriesStoredToken(d) ==
    (/\ calls[d].pc \in {"ready", "reading"}
     /\ calls'[d].pc = "sent"
     /\ \E c \in DOMAIN calls \ {d} : StoredBy(c)) =>
        LET headers == Unwrap(calls'[d].request).headers
        IN  /\ "Authorization" \in DOMAIN headers
            /\ headers["Authorization"] = <<"Bearer ", Unwrap(access_token)>>

\* C20 as claimed: login and refresh_token replace the stored token by the
\* access token of the response if and only if their request succeeded, and
\* the requests made afterwards through any handle of the client carry the
\* token stored last.
C20_StoredTokenUsedByAll ==
    [][\A c \in DOMAIN calls : StoresOnSuccessOnly(c) /\ CarriesStoredToken(c)]_vars

\* C20 as amended: the same, the requests made afterwards carrying the
\* token stored last when the client has no API key, and the API key alone
\* when it has one.
C20_LoginStoresAccessToken ==
    [][\A c \in DOMAIN calls :
          /\ StoresOnSuccessOnly(c)
          /\ api_key = None => CarriesStoredToken(c)
          /\ (/\ IsSome(api_key)
              /\ calls[c].pc \in {"ready", "reading"}
              /\ calls'[c].pc = "sent")
                => DOMAIN Unwrap(calls'[c].request).headers \cap {"Authorization", "X-API-Key"}
                      = {"X-API-Key"}]_vars

\* login has returned its response through the auth handle and a call
\* through the contacts handle is sent with the token login stored.
C20_Witness ==
    \E c, d \in DOMAIN calls :
        /\ IsSome(calls[c].req)
        /\ IsSome(calls[d].req)
        /\ api_key = None
        /\ Unwrap(calls[c].req).op = "login"
        /\ IsSome(calls[c].ret)
        /\ Unwrap(calls[c].ret).kind = "Ok"
        /\ Unwrap(Unwrap(calls[c].ret).value).access_token = "t1"
        /\ access_token = Some("t1")
        /\ held = {Some("t0"), Some("t1")}
        /\ Unwrap(calls[d].req).handle = "contacts"
        /\ calls[d].pc = "sent"
        /\ calls[d].attempts = 2
        /\ Unwrap(calls[d].request).headers["Authorization"] = <<"Bearer ", "t1">>

\* C21: whenever AuthResource::logout returns, with Ok or with an error, the
\* store holds no token, and the attempts sent from then on by a client
\* without API key carry no Authorization header until a token is stored
\* again.
C21_LogoutClearsToken ==
    [][\A c \in DOMAIN calls :
          /\ (/\ IsSome(calls'[c].req)
              /\ Unwrap(calls'[c].req).op = "logout"
              /\ calls[c].ret = None
              /\ IsSome(calls'[c].ret))
                => access_token' = None
          /\ (/\ api_key = None
              /\ access_token = None
              /\ calls[c].pc \in {"ready", "reading"}
              /\ calls'[c].pc = "sent")
                => "Authorization" \notin DOMAIN Unwrap(calls'[c].request).headers]_vars

\* C22 as stated: for every payload and every secret, verify_signature accepts
\* a signature exactly when it is the one compute_signature gives for them.
C22_ComputedSignatureAccepted ==
    wh_out.op = "verify_signature" =>
        (wh_out.ret = "true" <=>
            wh_out.signature = compute_signature(wh_in.payload, wh_in.secret))

\* C22: for every payload and every non-empty secret, verify_signature accepts
\* the signature compute_signature gives for them and rejects every other
\* string, of another length or of other content; under the empty secret it
\* rejects every signature.
C22_OnlyComputedSignatureAccepted ==
    wh_out.op = "verify_signature" =>
        (wh_out.ret = "true" <=>
            /\ wh_in.secret # <<>>
            /\ wh_out.signature = compute_signature(wh_in.payload, wh_in.secret))

C22_Witness ==
    /\ wh_out.op = "verify_signature"
    /\ wh_in.secret # <<>>
    /\ wh_out.signature = compute_signature(wh_in.payload, wh_in.secret)
    /\ wh_out.ret = "true"

LowerHexChars ==
    {"0", "1", "2", "3", "4", "5", "6", "7", "8", "9", "a", "b", "c", "d", "e", "f"}

\* C23: for every payload and every secret, the empty ones included,
\* compute_signature yields a string of 64 characters, each a lowercase
\* hexadecimal digit.
C23_SignatureIsLowerHex ==
    wh_out.op = "compute_signature" =>
        /\ Len(wh_out.signature) = 64
        /\ \A i \in 1..Len(wh_out.signature) : wh_out.signature[i] \in LowerHexChars

C23_Witness ==
    /\ wh_out.op = "compute_signature"
    /\ wh_in.payload.bytes = <<>>
    /\ wh_in.secret = <<>>
    /\ Len(wh_out.signature) = 64

SameLength(input, signature) ==
    /\ Len(signature) # 0
    /\ Len(signature) = Len(compute_signature(input.payload, input.secret))

Mismatches(input, signature) ==
    LET expected == compute_signature(input.payload, input.secret)
    IN  {i \in 1..Len(signature) : BitXor(Ord[expected[i]], Ord[signature[i]]) # 0}

\* C24 as stated: when the expected and the supplied signature have the same
\* non-zero length the loop of verify_signature runs once per position,
\* wherever the first mismatch lies, and the answer is whether no position
\* differs; it returns false without a comparison step only when the supplied
\* signature is empty or the lengths differ.
C24_ConstantShapedComparison ==
    wh_out.op = "verify_signature" =>
        /\ SameLength(wh_in, wh_out.signature) =>
                /\ wh_out.steps = Len(wh_out.signature)
                /\ (wh_out.ret = "true") <=> (Mismatches(wh_in, wh_out.signature) = {})
        /\ wh_out.steps = 0 =>
                /\ wh_out.ret = "false"
                /\ \/ wh_out.signature = <<>>
                   \/ Len(wh_out.signature) #
                          Len(compute_signature(wh_in.payload, wh_in.secret))

\* C24: under a non-empty secret, when the expected and the supplied signature
\* have the same non-zero length the loop of verify_signature runs once per
\* position, wherever the first mismatch lies, and the answer is whether no
\* position differs; it returns false without a comparison step only when the
\* supplied signature is empty, the secret is empty or the lengths differ.
C24_ConstantShapedUnlessEmptySecret ==
    wh_out.op = "verify_signature" =>
        /\ (wh_in.secret # <<>> /\ SameLength(wh_in, wh_out.signature)) =>
                /\ wh_out.steps = Len(wh_out.signature)
                /\ (wh_out.ret = "true") <=> (Mismatches(wh_in, wh_out.signature) = {})
        /\ wh_out.steps = 0 =>
                /\ wh_out.ret = "false"
                /\ \/ wh_out.signature = <<>>
                   \/ wh_in.secret = <<>>
                   \/ Len(wh_out.signature) #
                          Len(compute_signature(wh_in.payload, wh_in.secret))

C24_Witness ==
    /\ wh_out.op = "verify_signature"
    /\ wh_in.secret # <<>>
    /\ SameLength(wh_in, wh_out.signature)
    /\ 1 \in Mismatches(wh_in, wh_out.signature)
    /\ wh_out.steps = 64
    /\ wh_out.ret = "false"

KnownNames == {EventType[variant] : variant \in DOMAIN EventType}

\* C27: a verified event that decodes with a non-empty id and a non-empty type
\* passes construct_event whether or not the type is one of the 20 known
\* names; get_event_type returns None for a type that is none of them and,
\* for each known name, the EventType variant that carries that name.
C27_UnknownTypeAccepted ==
    LET decoded == WebhookEvent_from_slice(wh_in.payload)
    IN  /\ Cardinality(KnownNames) = 20
        /\ (/\ wh_out.op = "construct_event"
            /\ GateOf(wh_in) = "true"
            /\ IsSome(decoded)
            /\ Unwrap(decoded).id # ""
            /\ Unwrap(decoded).event_type # "")
              => wh_out.result = Ok(Unwrap(decoded), TRUE)
        /\ wh_out.op = "get_event_type" =>
              LET name == Unwrap(wh_out.result.event).event_type
              IN  IF name \in KnownNames
                  THEN /\ IsSome(wh_out.event_type)
                       /\ Unwrap(wh_out.event_type) \in DOMAIN EventType
                       /\ EventType[Unwrap(wh_out.event_type)] = name
                  ELSE wh_out.event_type = None

C27_Witness ==
    /\ wh_out.op = "get_event_type"
    /\ Unwrap(wh_out.result.event).event_type = "message.queued"
    /\ wh_out.event_type = None

(***************************************************************************)
(* The attempts of one call, and the calls of one client side by side.     *)
(***************************************************************************)
\* C25: the attempts of a call are strictly sequential: an attempt is sent
\* only from the top of the loop, when every earlier attempt of the call has
\* been answered and the sleep its answer asked for has ended, and at most
\* one attempt of the call is unanswered at any time.
C25_AttemptsSequential ==
    [][\A c \in DOMAIN calls :
          LET old == calls[c]
              new == calls'[c]
          IN  /\ new.sends - Len(new.log) \in {0, 1}
              /\ (new.sends - Len(new.log) = 1) => new.pc \in {"sent", "dropped"}
              /\ new.sends \in {old.sends, old.sends + 1, 0}
              /\ (new.sends = old.sends + 1)
                    => /\ old.pc \in {"ready", "reading"}
                       /\ new.pc = "sent"
                       /\ Len(old.log) = old.sends
                       /\ old.sends >= 1 =>
                              /\ IsSome(old.sleep)
                              /\ old.sleep = old.log[Len(old.log)].slept
              /\ (old.pc \in {"sent", "sleeping"} /\ new.pc \notin {"idle", "ready"})
                    => new.sends = old.sends
              /\ (old.pc = "sleeping" /\ new # old) => new.pc \in {"ready", "dropped"}]_vars

C25_Witness ==
    \E c \in DOMAIN calls :
        /\ calls[c].pc = "sent"
        /\ calls[c].sends = 3
        /\ Len(calls[c].log) = 2
        /\ calls[c].log[1].slept = Some(2)
        /\ calls[c].log[2].slept = Some(4)

\* C26: a call that awaits its response or sleeps holds no guard of the
\* token: meanwhile every other call at the top of its loop can take the
\* read guard and send its attempt, and set_access_token can take the write
\* guard as soon as no call is in the middle of reading the token.
C26_NoGuardAcrossAwait ==
    \A c \in DOMAIN calls :
        calls[c].pc \in {"sent", "sleeping"} =>
            /\ c \notin guards
            /\ \A d \in DOMAIN calls \ {c} :
                  /\ calls[d].pc = "ready" => ENABLED (ReadToken(d) \/ Send(d))
                  /\ calls[d].pc = "reading" => ENABLED Send(d)
            /\ (\A d \in DOMAIN calls : calls[d].pc # "reading") => ENABLED set_access_token

C26_Witness ==
    \E c, d \in DOMAIN calls :
        /\ calls[c].pc = "sleeping"
        /\ calls[d].pc = "reading"
        /\ guards = {d}

\* C28: a response that is neither 2xx, nor 429, nor 5xx ends the call at the
\* attempt that received it, whatever attempts remain, with the error
\* translated from its status; the call does not sleep and sends no more.
C28_OtherStatusEndsCall ==
    [][\A c \in DOMAIN calls :
          LET old == calls[c]
              new == calls'[c]
              status == Unwrap(new.response).status
          IN  /\ (/\ old.pc = "sent"
                  /\ new.pc \notin {"sent", "dropped"}
                  /\ IsSome(new.response)
                  /\ ~is_success(status)
                  /\ status # 429
                  /\ status \notin 500..599)
                    => /\ new.pc = "done"
                       /\ Unwrap(new.result).kind = "Err"
                       /\ ErrorVariant(new) = KindOfStatus(status)
                       /\ ErrorVariant(new) \in {"Validation", "Authentication",
                                                  "Authorization", "NotFound", "Unknown"}
                       /\ new.ret = new.result
                       /\ new.sleep = None
                       /\ new.sends = old.sends
                       /\ new.attempts = old.attempts
              /\ (Translated(old) /\ new # old)
                    => /\ new.pc = "ready"
                       /\ new.log = <<>>]_vars

C28_Witness ==
    \E c \in DOMAIN calls :
        /\ max_retries = 3
        /\ calls[c].pc = "done"
        /\ calls[c].attempts = 1
        /\ calls[c].sends = 1
        /\ calls[c].log = << [status |-> 404, slept |-> None] >>
        /\ ErrorVariant(calls[c]) = "NotFound"

Retryable(status) == status = 429 \/ status \in 500..599

\* The call at its only attempt, on a client built with no retry.
SingleAttempt(call) ==
    [IdleCall EXCEPT !.pc = "sent", !.req = call.req, !.attempts = 1, !.sends = 1]

\* C29: a call that ends on a 429 or a 5xx has used up its attempts, and the
\* error it returns is the error the same response gives a call at its only
\* attempt on a client with no retry: nothing of the earlier responses or of
\* the number of attempts is in it.
C29_ExhaustedErrorFromLastResponse ==
    \A c \in DOMAIN calls :
        (Translated(calls[c]) /\ Retryable(Unwrap(calls[c].response).status)) =>
            /\ calls[c].attempts >= max_retries
            /\ calls[c].result =
                  handle_response(SingleAttempt(calls[c]), Unwrap(calls[c].response), 0).result

C29_Witness ==
    \E c \in DOMAIN calls :
        /\ max_retries = 3
        /\ Translated(calls[c])
        /\ calls[c].attempts = 3
        /\ calls[c].log[1].status = 429
        /\ calls[c].log[2].status = 500
        /\ Unwrap(calls[c].response).status = 503
        /\ Unwrap(Unwrap(calls[c].result).error).request_id = Some("req-1")

\* C30: on a client without API key every attempt, a retry included, takes
\* the read guard and reads the token anew: the attempt carries the token
\* the store holds when it is sent, and no Authorization header when the
\* store is empty, whatever the attempt before it carried.
C30_TokenReadEachAttempt ==
    [][\A c \in DOMAIN calls :
          LET old == calls[c]
              new == calls'[c]
          IN  /\ (api_key = None /\ new.sends = old.sends + 1)
                    => /\ old.pc = "reading"
                       /\ c \in guards
                       /\ bearer_of(Unwrap(new.request)) = access_token
              /\ c \in guards => access_token' = access_token]_vars

C30_Witness ==
    \E c \in DOMAIN calls :
        /\ calls[c].pc = "reading"
        /\ c \in guards
        /\ calls[c].attempts = 1
        /\ bearer_of(Unwrap(calls[c].request)) = Some("t0")
        /\ access_token = Some("t1")

(***************************************************************************)
(* The retry decision and the requests of the retries.                     *)
(***************************************************************************)
\* C31: an answered attempt is followed by a retry exactly when the status
\* is 429 or 5xx and the attempts made are fewer than max_retries, whatever
\* the method, the request body, the authentication mode and the response
\* body; the retry is sent with the method, the URL and the body of the
\* attempt before it.
C31_RetryByStatusAndAttemptsOnly ==
    [][\A c \in DOMAIN calls :
          LET old == calls[c]
              new == calls'[c]
          IN  /\ (/\ old.pc = "sent"
                  /\ new.pc \notin {"sent", "dropped"}
                  /\ IsSome(new.response))
                    => (new.pc = "sleeping" <=>
                          /\ Retryable(Unwrap(new.response).status)
                          /\ old.attempts < max_retries)
              /\ (new.sends = old.sends + 1 /\ old.sends >= 1)
                    => /\ Unwrap(new.request).method = Unwrap(old.request).method
                       /\ Unwrap(new.request).url = Unwrap(old.request).url
                       /\ Unwrap(new.request).body = Unwrap(old.request).body
                       /\ Unwrap(new.request).method = Unwrap(new.req).method
                       /\ Unwrap(new.request).body = Unwrap(new.req).body]_vars

C31_Witness ==
    \E c \in DOMAIN calls :
        /\ calls[c].pc = "sent"
        /\ calls[c].sends = 2
        /\ calls[c].log[1].status = 503
        /\ Unwrap(calls[c].request).method = "PATCH"
        /\ Unwrap(calls[c].request).body = Some("{name}")
        /\ IsSome(api_key)

(***************************************************************************)
(* The tolerance of construct_event.                                       *)
(***************************************************************************)
\* The payload decodes to an event with a non-empty id and type.
WellFormedEvent(payload) ==
    LET event == WebhookEvent_from_slice(payload)
    IN  /\ IsSome(event)
        /\ Unwrap(event).id # ""
        /\ Unwrap(event).event_type # ""

\* C32: construct_event with a tolerance of Some(0) returns what it returns
\* with None, a window of 300 seconds: a validly signed, well-formed event
\* whose timestamp header is 1 to 300 seconds away from now is accepted.
C32_ZeroToleranceNeverApplied ==
    (wh_out.op = "construct_event" /\ wh_in.tolerance_seconds = Some(0)) =>
        /\ wh_out.result = construct_event(wh_in.payload, wh_in.headers, wh_in.secret, None,
                                           wh_in.now, wh_in.overflow_checks)
        /\ (/\ ValidSignature(wh_in)
            /\ WellFormedEvent(wh_in.payload)
            /\ OffNowWithinDefault(wh_in))
              => /\ wh_out.result.kind = "Ok"
                 /\ wh_out.result.event = WebhookEvent_from_slice(wh_in.payload)

C32_Witness ==
    /\ wh_out.op = "construct_event"
    /\ wh_in.tolerance_seconds = Some(0)
    /\ ValidSignature(wh_in)
    /\ HeaderRead(wh_in.headers, TIMESTAMP_HEADER)
          = Some(to_string(wh_in.now - DEFAULT_TOLERANCE_SECONDS))
    /\ wh_out.result.kind = "Ok"

(***************************************************************************)
(* The message of a status-derived error.                                  *)
(***************************************************************************)
\* The JSON document is a structured API error: an object with a string
\* code, a string message and, if any, details that are an object.
IsStructuredError(doc) ==
    /\ doc.t = "object"
    /\ {"code", "message"} \subseteq DOMAIN doc.f
    /\ doc.f["code"].t \in {"string", "datetime"}
    /\ doc.f["message"].t \in {"string", "datetime"}
    /\ ("details" \in DOMAIN doc.f => doc.f["details"].t \in {"object", "null"})

\* C33: the message of the error a call returns on a final non-2xx response
\* is the message field of the body when the body is a structured API error,
\* the text of the body when it is anything else, and the empty string when
\* the body is empty or cannot be read.
C33_MessageFromBody ==
    \A c \in DOMAIN calls :
        Translated(calls[c]) =>
            LET body == Unwrap(calls[c].response).body
                message == Unwrap(Unwrap(calls[c].result).error).message
            IN  IF ~body.readable \/ body.empty THEN message = ""
                ELSE IF IsStructuredError(body.text)
                THEN message = body.text.f["message"].v
                ELSE message = body.text.v

C33_Witness ==
    \E c \in DOMAIN calls :
        /\ Translated(calls[c])
        /\ Unwrap(calls[c].response).body = TextBody(ApiErrorDetailed)
        /\ Unwrap(Unwrap(calls[c].result).error).message = "denied"

(***************************************************************************)
(* The arithmetic of the timestamp check.                                  *)
(***************************************************************************)
\* C34: for every timestamp header that parses as an i64, the ends of the
\* range included, verify does not panic, and it returns false whenever the
\* distance between now and the timestamp exceeds the tolerance.
C34_TimestampDistanceNeverOverflows ==
    LET timestamp_str == HeaderRead(wh_in.headers, TIMESTAMP_HEADER)
        timestamp == parse_i64(Unwrap(timestamp_str))
    IN  (/\ wh_out.op = "verify"
         /\ unwrap_or(HeaderRead(wh_in.headers, SIGNATURE_HEADER), <<>>) # <<>>
         /\ IsSome(timestamp_str)
         /\ IsSome(timestamp)) =>
            /\ wh_out.ret \in {"true", "false"}
            /\ (Abs(wh_in.now - Unwrap(timestamp)) > ToleranceOf(wh_in)) => wh_out.ret = "false"

(***************************************************************************)
(* A client built with max_retries(0).                                     *)
(***************************************************************************)
\* C35: whatever max_retries is, a call that has started can send its first
\* attempt and a call that has returned has sent at least one; with
\* max_retries = 0 the call sends exactly one attempt and never sleeps.
C35_OneAttemptWithoutRetries ==
    \A c \in DOMAIN calls :
        /\ (calls[c].pc = "ready" /\ calls[c].attempts = 0)
              => ENABLED (ReadToken(c) \/ Send(c))
        /\ (calls[c].pc = "reading" /\ calls[c].attempts = 0) => ENABLED Send(c)
        /\ calls[c].pc = "done" => (calls[c].sends >= 1 /\ Len(calls[c].log) >= 1)
        /\ max_retries = 0 =>
              /\ calls[c].sends <= 1
              /\ calls[c].pc # "sleeping"
              /\ calls[c].sleep = None
              /\ calls[c].pc = "done" => (calls[c].sends = 1 /\ calls[c].attempts = 1)

C35_Witness ==
    \E c \in DOMAIN calls :
        /\ max_retries = 0
        /\ calls[c].pc = "done"
        /\ calls[c].sends = 1
        /\ calls[c].log = << [status |-> 503, slept |-> None] >>
        /\ ErrorVariant(calls[c]) = "Server"

(***************************************************************************)
(* The empty secret.                                                       *)
(***************************************************************************)
\* C36: with an empty secret verify_signature and verify return false and
\* construct_event returns a WebhookVerification error, for every payload
\* and every signature, the one compute_signature gives for the payload
\* under the empty secret included.
C36_EmptySecretRejectsAll ==
    wh_in.secret = <<>> =>
        /\ wh_out.op \in {"verify_signature", "verify"} => wh_out.ret = "false"
        /\ wh_out.op = "construct_event" =>
              /\ wh_out.result.kind = "Err"
              /\ Unwrap(wh_out.result.error).variant = "WebhookVerification"

(***************************************************************************)
(* What the signature covers.                                              *)
(***************************************************************************)
\* The header map without its timestamp header.
WithoutTimestamp(headers) ==
    [name \in DOMAIN headers \ {TIMESTAMP_HEADER, to_lowercase(TIMESTAMP_HEADER)} |->
        headers[name]]

\* The header map with its timestamp header rewritten to the time now.
TimestampRewritten(headers, now) ==
    WithoutTimestamp(headers) @@ Entry(TIMESTAMP_HEADER, to_string(now))

\* The timestamp header parses to a time no further from now than the tolerance.
WithinTolerance(in) ==
    LET timestamp_str == HeaderRead(in.headers, TIMESTAMP_HEADER)
    IN  /\ IsSome(timestamp_str)
        /\ IsSome(parse_i64(Unwrap(timestamp_str)))
        /\ Abs(in.now - Unwrap(parse_i64(Unwrap(timestamp_str)))) <= ToleranceOf(in)

\* C37: the signature does not cover the timestamp header. For a payload, a
\* secret and a signature header, verify returns for every timestamp within
\* the tolerance what it returns without the timestamp header; a validly
\* signed webhook is accepted once its timestamp header is removed, and,
\* under a tolerance that is not negative, once it is rewritten to now.
C37_TimestampNotSigned ==
    wh_out.op = "verify" =>
        LET removed == verify(wh_in.payload, WithoutTimestamp(wh_in.headers), wh_in.secret,
                              wh_in.tolerance_seconds, wh_in.now, wh_in.overflow_checks)
            rewritten == verify(wh_in.payload, TimestampRewritten(wh_in.headers, wh_in.now),
                                wh_in.secret, wh_in.tolerance_seconds, wh_in.now,
                                wh_in.overflow_checks)
        IN  /\ (HeaderRead(wh_in.headers, TIMESTAMP_HEADER) = None \/ WithinTolerance(wh_in))
                  => wh_out.ret = removed
            /\ ToleranceOf(wh_in) >= 0 => rewritten = removed
            /\ ValidSignature(wh_in) => removed = "true"

\* A validly signed webhook with a stale timestamp is refused, and is
\* accepted with the header removed.
C37_Witness ==
    /\ wh_out.op = "verify"
    /\ ValidSignature(wh_in)
    /\ wh_in.tolerance_seconds = None
    /\ HeaderRead(wh_in.headers, TIMESTAMP_HEADER)
          = Some(to_string(wh_in.now - (DEFAULT_TOLERANCE_SECONDS + 1)))
    /\ wh_out.ret = "false"
    /\ verify(wh_in.payload, WithoutTimestamp(wh_in.headers), wh_in.secret,
              wh_in.tolerance_seconds, wh_in.now, wh_in.overflow_checks) = "true"

(***************************************************************************)
(* The outcomes of a 2xx response.                                         *)
(***************************************************************************)
\* C38: a 2xx response ends the call at that attempt, with no sleep and no
\* further attempt, in Ok or in a Serialization or Network error, never in
\* an error translated from a status. A 2xx body that is an envelope with
\* success = false and an error object is decoded whole as T: it is returned
\* as Ok where T accepts it and is a Serialization error where T does not.
C38_SuccessStatusOutcomes ==
    [][\A c \in DOMAIN calls :
          LET old == calls[c]
              new == calls'[c]
              response == Unwrap(new.response)
              result == Unwrap(new.result)
          IN  (/\ old.pc = "sent"
               /\ new.pc \notin {"sent", "dropped"}
               /\ IsSome(new.response)
               /\ is_success(response.status))
                 => /\ new.pc = "done"
                    /\ new.sleep = None
                    /\ new.sends = old.sends
                    /\ new.attempts = old.attempts
                    /\ result.kind = "Err" => ErrorVariant(new) \in {"Serialization", "Network"}
                    /\ response.body = TextBody(EnvelopeFail) =>
                          IF Unwrap(new.req).ty = "Value"
                          THEN result = OkValue(EnvelopeFail)
                          ELSE /\ result.kind = "Err"
                               /\ ErrorVariant(new) = "Serialization"]_vars

C38_Witness ==
    \E c \in DOMAIN calls :
        /\ calls[c].pc = "done"
        /\ IsSome(calls[c].response)
        /\ Unwrap(calls[c].response).status = 200
        /\ Unwrap(calls[c].response).body = TextBody(EnvelopeFail)
        /\ Unwrap(calls[c].req).op = "get"
        /\ calls[c].result = Some(OkValue(EnvelopeFail))

(***************************************************************************)
(* Termination.                                                            *)
(***************************************************************************)
Running(call) == call.pc \in {"ready", "reading", "sent", "sleeping"}

Returned(call) == call.pc = "done" /\ IsSome(call.result)

AttemptCeiling == IF max_retries >= 1 THEN max_retries ELSE 1

====
